---------------------------- MODULE Spec2Model ----------------------------
(***************************************************************************)
(* SafeMongo (nhd2106/mongo-safe): the scan engine of src/utils/scanner.ts,*)
(* the rule catalog of src/patterns/unsafe-queries.ts and the extension of *)
(* src/extension.ts that runs the scans and publishes the diagnostics.     *)
(*                                                                         *)
(* A text is a sequence of characters.  In the texts over Chars "a" stands *)
(* for a character a matcher's literal matches, " " for white space and    *)
(* "\n" is the line delimiter.  A file path is a sequence of path tokens;  *)
(* the token sequence <<"unsafe-queries", ".ts">> is the string            *)
(* "unsafe-queries.ts".  The matcher of one of the three small rules is a  *)
(* sequence of regular-expression atoms: a literal character, "\\s*", "^"  *)
(* or "$".  The matcher of a rule of the catalog is the tree of its        *)
(* regular expression, and the texts scanned with the catalog are lines of *)
(* the catalog's own examples.                                             *)
(*                                                                         *)
(* Spec and SpecConc run the scan engine step by step, SpecCatalog runs it *)
(* with the 35 rules of the catalog, SpecSeverity applies the severity     *)
(* functions, SpecExt runs the handlers of the extension that scan, each   *)
(* handler as one step, and SpecPanels runs the scans of one document with *)
(* the code actions and the detail panels.  A webview panel is disposed by *)
(* the extension or closed by the user; vscode runs the panel's            *)
(* onDidDispose listeners inside dispose(), once for a panel.              *)
(***************************************************************************)
EXTENDS Integers, Sequences, FiniteSets, TLC

(* ------------------------------ bounds -------------------------------- *)

\* longest text scanned by the single caller of Spec
MaxLen == 4

\* longest text scanned by the interleaved callers of SpecConc
MaxConcLen == 3

(* ------------------------------ strings ------------------------------- *)

Chars == {"a", " ", "\n"}

TextsOf(n) == UNION {[1..k -> Chars] : k \in 0..n}

\* ECMAScript WhiteSpace and LineTerminator, as String.prototype.trim and
\* the \s class see them, of the characters a text of this model can hold
WhiteSpaceChars == {" ", "\t", "\n", "\r", "\f"}

IsWhiteSpace(c) == c \in WhiteSpaceChars

\* the substrings of s from offset k on that the separator "\n" delimits
RECURSIVE SplitFrom(_, _)
SplitFrom(s, k) ==
  LET seps == {j \in k..Len(s) : s[j] = "\n"}
      e == IF seps = {} THEN Len(s) + 1
           ELSE CHOOSE j \in seps : \A i \in seps : j <= i
  IN  IF e > Len(s) THEN <<SubSeq(s, k, Len(s))>>
      ELSE <<SubSeq(s, k, e - 1)>> \o SplitFrom(s, e + 1)

\* content.split("\n")
Split(content) == SplitFrom(content, 1)

RECURSIVE TrimStart(_)
TrimStart(s) ==
  IF s # <<>> /\ IsWhiteSpace(Head(s)) THEN TrimStart(Tail(s)) ELSE s

RECURSIVE TrimEnd(_)
TrimEnd(s) ==
  IF s # <<>> /\ IsWhiteSpace(s[Len(s)])
  THEN TrimEnd(SubSeq(s, 1, Len(s) - 1))
  ELSE s

\* line.trim()
Trim(line) == TrimEnd(TrimStart(line))

(* ------------------------------ file paths ---------------------------- *)

\* the optional parameter filePath?: string; given = FALSE is undefined
NoPath == [given |-> FALSE, name |-> <<>>]

PathOf(tokens) == [given |-> TRUE, name |-> tokens]

TsName == <<"unsafe-queries", ".ts">>

JsName == <<"unsafe-queries", ".js">>

\* String.prototype.includes
Includes(hay, needle) ==
  \E i \in 0..(Len(hay) - Len(needle)) :
    SubSeq(hay, i + 1, i + Len(needle)) = needle

\* the mutant: only the TypeScript build form is recognised
IsPatternsFileTsOnly(filePath) ==
  /\ filePath.given
  /\ filePath.name # <<>>
  /\ Includes(filePath.name, TsName)

\* filePath && (filePath.includes("unsafe-queries.ts") ||
\*              filePath.includes("unsafe-queries.js"))
IsPatternsFile(filePath) ==
  /\ filePath.given
  /\ filePath.name # <<>>
  /\ (Includes(filePath.name, TsName) \/ Includes(filePath.name, JsName))

FilePaths ==
  { NoPath,
    PathOf(<<>>),
    PathOf(<<"app", ".ts">>),
    PathOf(<<"unsafe-queries", ".ts">>),
    PathOf(<<"src/", "unsafe-queries", ".js">>),
    PathOf(<<"src/", "unsafe-queries", ".ts", "x">>) }

(* ------------------------------ rules ---------------------------------- *)

\* UnsafePattern records: id and pattern (source atoms and flags).  Every
\* regular expression of the catalog carries the flag i and no other.
LiteralRule ==
  [id |-> "LITERAL", name |-> "Literal", severity |-> "high",
   docUrl |-> "https://www.mongodb.com/docs/manual/literal/",
   pattern |-> [source |-> <<"a">>, flags |-> {"i"}]]

SpacedRule ==
  [id |-> "SPACED", name |-> "Spaced", severity |-> "medium",
   docUrl |-> "https://www.mongodb.com/docs/manual/spaced/",
   pattern |-> [source |-> <<"a", "\\s*", "a">>, flags |-> {"i"}]]

BlankRule ==
  [id |-> "BLANK", name |-> "Blank", severity |-> "low",
   docUrl |-> "https://www.mongodb.com/docs/manual/blank/",
   pattern |-> [source |-> <<"^", "\\s*", "$">>, flags |-> {"i"}]]

RuleUniverse == {LiteralRule, SpacedRule, BlankRule}

RuleIds == {r.id : r \in RuleUniverse}

\* the rule lists: every sequence of distinct rules
RuleLists ==
  {l \in UNION {[1..k -> RuleUniverse] : k \in 0..Cardinality(RuleUniverse)} :
     \A i, j \in DOMAIN l : i # j => l[i] # l[j]}

(* ------------------------------ RegExp --------------------------------- *)

\* the number of white-space characters of s from offset pos on
RECURSIVE SpaceRun(_, _)
SpaceRun(s, pos) ==
  IF pos < Len(s) /\ IsWhiteSpace(s[pos + 1]) THEN 1 + SpaceRun(s, pos + 1)
  ELSE 0

\* The backtracking matcher: the end offset of the match of atoms k.. at
\* offset pos of s, or -1.  "\\s*" is greedy: Star tries the longest run
\* first.
RECURSIVE MatchHere(_, _, _, _)
RECURSIVE Star(_, _, _, _, _)
MatchHere(atoms, k, s, pos) ==
  IF k > Len(atoms) THEN pos
  ELSE IF atoms[k] = "^" THEN
    IF pos = 0 THEN MatchHere(atoms, k + 1, s, pos) ELSE -1
  ELSE IF atoms[k] = "$" THEN
    IF pos = Len(s) THEN MatchHere(atoms, k + 1, s, pos) ELSE -1
  ELSE IF atoms[k] = "\\s*" THEN Star(atoms, k, s, pos, SpaceRun(s, pos))
  ELSE IF pos < Len(s) /\ s[pos + 1] = atoms[k]
    THEN MatchHere(atoms, k + 1, s, pos + 1)
    ELSE -1

Star(atoms, k, s, pos, n) ==
  LET e == MatchHere(atoms, k + 1, s, pos + n)
  IN  IF e # -1 THEN e
      ELSE IF n = 0 THEN -1
      ELSE Star(atoms, k, s, pos, n - 1)

\* the leftmost match at or after offset from: its end offset, or -1
RECURSIVE Search(_, _, _)
Search(atoms, s, from) ==
  IF from > Len(s) THEN -1
  ELSE LET e == MatchHere(atoms, 1, s, from)
       IN  IF e # -1 THEN e ELSE Search(atoms, s, from + 1)

(* ----------------- the catalog's regular expressions ------------------- *)

\* the character U+0060, which a string of this notation cannot hold
BackTick == "\\x60"

LowerSeq ==
  <<"a", "b", "c", "d", "e", "f", "g", "h", "i", "j", "k", "l", "m",
    "n", "o", "p", "q", "r", "s", "t", "u", "v", "w", "x", "y", "z">>

UpperSeq ==
  <<"A", "B", "C", "D", "E", "F", "G", "H", "I", "J", "K", "L", "M",
    "N", "O", "P", "Q", "R", "S", "T", "U", "V", "W", "X", "Y", "Z">>

LowerLetters == {LowerSeq[i] : i \in DOMAIN LowerSeq}

UpperLetters == {UpperSeq[i] : i \in DOMAIN UpperSeq}

Digits == {"0", "1", "2", "3", "4", "5", "6", "7", "8", "9"}

\* \w
WordChars == LowerLetters \cup UpperLetters \cup Digits \cup {"_"}

\* . matches every character but the line terminators
LineTerminators == {"\n", "\r"}

\* Canonicalize of the flag i, on the letters of the catalog's alphabet: both
\* cases of a letter have one canonical form
Fold(c) ==
  IF c \in UpperLetters
    THEN LowerSeq[CHOOSE i \in DOMAIN UpperSeq : UpperSeq[i] = c]
    ELSE c

Canonicalize(c, ignoreCase) == IF ignoreCase THEN Fold(c) ELSE c

\* The nodes of a pattern.  A group captures nothing the catalog reads back,
\* so a group is its body; a lazy quantifier matches the same strings as the
\* greedy one, and test() reports only whether a match exists.
Ch(c) == [t |-> "char", c |-> c]

In(cs) == [t |-> "class", neg |-> FALSE, cs |-> cs]

NotIn(cs) == [t |-> "class", neg |-> TRUE, cs |-> cs]

\* the mutant: \s matches no character
WsNothing == In({})

\* \s
Ws == In(WhiteSpaceChars)

\* \w as a node
Wd == In(WordChars)

\* .
AnyChar == NotIn(LineTerminators)

Cat(xs) == [t |-> "cat", xs |-> xs]

Lits(cs) == Cat([i \in DOMAIN cs |-> Ch(cs[i])])

Alt(xs) == [t |-> "alt", xs |-> xs]

Many(x) == [t |-> "many", x |-> x]

Some(x) == Cat(<<x, Many(x)>>)

Rep(x, min, max) == [t |-> "rep", x |-> x, min |-> min, max |-> max]

Opt(x) == Rep(x, 0, 1)

NotAhead(x) == [t |-> "notAhead", x |-> x]

NotBehind(x) == [t |-> "notBehind", x |-> x]

WordBoundary == [t |-> "wordBoundary"]

\* character c of the subject matches the character or class node n
CharMatches(n, c, ignoreCase) ==
  IF n.t = "char"
    THEN Canonicalize(c, ignoreCase) = Canonicalize(n.c, ignoreCase)
    ELSE (\E d \in n.cs :
            Canonicalize(d, ignoreCase) = Canonicalize(c, ignoreCase))
         # n.neg

IsWordChar(s, pos) == pos >= 1 /\ pos <= Len(s) /\ s[pos] \in WordChars

\* The matcher: the offsets at which a match of node n can end when it starts
\* at one of the offsets of the set from.  Every way to match is followed, as
\* the backtracking of the engine does, so the set is empty exactly when the
\* engine fails from each of these offsets.
RECURSIVE Ends(_, _, _, _)
RECURSIVE CatEnds(_, _, _, _, _)
RECURSIVE ManyEnds(_, _, _, _, _)
RECURSIVE RepEnds(_, _, _, _, _, _)
Ends(n, s, from, ignoreCase) ==
  IF from = {} THEN {}
  ELSE IF n.t \in {"char", "class"} THEN
    {p + 1 : p \in {q \in from :
                      q < Len(s) /\ CharMatches(n, s[q + 1], ignoreCase)}}
  ELSE IF n.t = "cat" THEN CatEnds(n.xs, 1, s, from, ignoreCase)
  ELSE IF n.t = "alt" THEN
    UNION {Ends(n.xs[k], s, from, ignoreCase) : k \in DOMAIN n.xs}
  ELSE IF n.t = "many" THEN ManyEnds(n.x, s, from, from, ignoreCase)
  ELSE IF n.t = "rep" THEN RepEnds(n.x, n.min, n.max, s, from, ignoreCase)
  ELSE IF n.t = "notAhead" THEN
    {p \in from : Ends(n.x, s, {p}, ignoreCase) = {}}
  ELSE IF n.t = "notBehind" THEN
    {p \in from : p \notin Ends(n.x, s, 0..p, ignoreCase)}
  ELSE \* wordBoundary
    {p \in from : IsWordChar(s, p) # IsWordChar(s, p + 1)}

CatEnds(xs, k, s, from, ignoreCase) ==
  IF k > Len(xs) THEN from
  ELSE CatEnds(xs, k + 1, s, Ends(xs[k], s, from, ignoreCase), ignoreCase)

ManyEnds(x, s, reached, frontier, ignoreCase) ==
  LET new == Ends(x, s, frontier, ignoreCase) \ reached
  IN  IF new = {} THEN reached
      ELSE ManyEnds(x, s, reached \cup new, new, ignoreCase)

RepEnds(x, min, max, s, from, ignoreCase) ==
  IF min > 0
    THEN RepEnds(x, min - 1, max - 1, s, Ends(x, s, from, ignoreCase),
                 ignoreCase)
  ELSE IF max = 0 \/ from = {} THEN from
  ELSE from \cup RepEnds(x, 0, max - 1, s, Ends(x, s, from, ignoreCase),
                         ignoreCase)

\* whether the pattern matches somewhere in s at or after offset start
Matches(regexp, s, start) ==
  Ends(regexp.ast, s, start..Len(s), "i" \in regexp.flags) # {}

(* ------------------------- the rule catalog ---------------------------- *)

FUNCTION_PARAMETER_INJECTION ==
  [id |-> "FUNCTION_PARAMETER_INJECTION",
   name |-> "Function Parameter Injection",
   severity |-> "high",
   docUrl |->
     "https://www.mongodb.com/docs/manual/core/security-input-validation/",
   pattern |->
     [source |->
        "\\.(find|findOne|aggregate|update|delete)\\s*\\(\\s*\\{\\s*[a-zA-Z0-9_]+\\s*:\\s*(\\w+)(?!\\()",
      flags |-> {"i"},
      ast |-> Cat(<<Ch("."), Alt(<<Lits(<<"f", "i", "n", "d">>), Lits(<<"f",
          "i", "n", "d", "O", "n", "e">>), Lits(<<"a", "g", "g", "r", "e",
          "g", "a", "t", "e">>), Lits(<<"u", "p", "d", "a", "t", "e">>),
          Lits(<<"d", "e", "l", "e", "t", "e">>)>>), Many(Ws), Ch("("),
          Many(Ws), Ch("{"), Many(Ws), Some(In(LowerLetters \cup UpperLetters
          \cup Digits \cup {"_"})), Many(Ws), Ch(":"), Many(Ws), Some(Wd),
          NotAhead(Ch("("))>>)]]

TEMPLATE_STRING_INJECTION ==
  [id |-> "TEMPLATE_STRING_INJECTION",
   name |-> "Template String Injection",
   severity |-> "high",
   docUrl |->
     "https://www.mongodb.com/docs/manual/faq/fundamentals/#how-does-mongodb-address-sql-or-query-injection",
   pattern |->
     [source |->
        "db\\.[a-zA-Z0-9_]+\\.(find|findOne|aggregate|update|delete)\\s*\\(\\s*\\x60.*?\\$\\{.*?\\}.*?\\x60",
      flags |-> {"i"},
      ast |-> Cat(<<Lits(<<"d", "b", ".">>), Some(In(LowerLetters \cup
          UpperLetters \cup Digits \cup {"_"})), Ch("."), Alt(<<Lits(<<"f",
          "i", "n", "d">>), Lits(<<"f", "i", "n", "d", "O", "n", "e">>),
          Lits(<<"a", "g", "g", "r", "e", "g", "a", "t", "e">>), Lits(<<"u",
          "p", "d", "a", "t", "e">>), Lits(<<"d", "e", "l", "e", "t",
          "e">>)>>), Many(Ws), Ch("("), Many(Ws), Ch(BackTick), Many(AnyChar),
          Lits(<<"$", "{">>), Many(AnyChar), Ch("}"), Many(AnyChar),
          Ch(BackTick)>>)]]

ARRAY_FILTER_INJECTION ==
  [id |-> "ARRAY_FILTER_INJECTION",
   name |-> "Array Filter Injection",
   severity |-> "medium",
   docUrl |->
     "https://www.mongodb.com/docs/manual/reference/operator/update/positional-filtered/",
   pattern |->
     [source |->
        "\\$\\[\\s*\\w+\\s*\\]",
      flags |-> {"i"},
      ast |-> Cat(<<Lits(<<"$", "[">>), Many(Ws), Some(Wd), Many(Ws),
          Ch("]")>>)]]

DIRECT_QUERY_VARIABLE_ASSIGNMENT ==
  [id |-> "DIRECT_QUERY_VARIABLE_ASSIGNMENT",
   name |-> "Direct Query Variable Assignment",
   severity |-> "high",
   docUrl |->
     "https://www.mongodb.com/docs/manual/core/security-input-validation/",
   pattern |->
     [source |->
        "const\\s+query\\s*=\\s*req\\.(body|params|query)",
      flags |-> {"i"},
      ast |-> Cat(<<Lits(<<"c", "o", "n", "s", "t">>), Some(Ws), Lits(<<"q",
          "u", "e", "r", "y">>), Many(Ws), Ch("="), Many(Ws), Lits(<<"r", "e",
          "q", ".">>), Alt(<<Lits(<<"b", "o", "d", "y">>), Lits(<<"p", "a",
          "r", "a", "m", "s">>), Lits(<<"q", "u", "e", "r", "y">>)>>)>>)]]

BULK_OPERATION_INJECTION ==
  [id |-> "BULK_OPERATION_INJECTION",
   name |-> "Bulk Operation Injection",
   severity |-> "high",
   docUrl |->
     "https://www.mongodb.com/docs/manual/reference/method/db.collection.bulkWrite/",
   pattern |->
     [source |->
        "\\.bulkWrite\\s*\\(\\s*(\\w+)(?!\\()",
      flags |-> {"i"},
      ast |-> Cat(<<Lits(<<".", "b", "u", "l", "k", "W", "r", "i", "t",
          "e">>), Many(Ws), Ch("("), Many(Ws), Some(Wd),
          NotAhead(Ch("("))>>)]]

EVAL_USAGE ==
  [id |-> "EVAL_USAGE",
   name |-> "Eval Usage",
   severity |-> "high",
   docUrl |->
     "https://www.mongodb.com/docs/manual/reference/method/db.eval/#security",
   pattern |->
     [source |->
        "db\\.eval\\s*\\(",
      flags |-> {"i"},
      ast |-> Cat(<<Lits(<<"d", "b", ".", "e", "v", "a", "l">>), Many(Ws),
          Ch("(")>>)]]

INSECURE_AUTH_CHECKS ==
  [id |-> "INSECURE_AUTH_CHECKS",
   name |-> "Insecure Authentication Checks",
   severity |-> "high",
   docUrl |->
     "https://www.mongodb.com/docs/manual/core/security-scram/",
   pattern |->
     [source |->
        "\\.(find|findOne)\\s*\\(\\s*\\{\\s*.*?password.*?\\}\\s*\\)",
      flags |-> {"i"},
      ast |-> Cat(<<Ch("."), Alt(<<Lits(<<"f", "i", "n", "d">>), Lits(<<"f",
          "i", "n", "d", "O", "n", "e">>)>>), Many(Ws), Ch("("), Many(Ws),
          Ch("{"), Many(Ws), Many(AnyChar), Lits(<<"p", "a", "s", "s", "w",
          "o", "r", "d">>), Many(AnyChar), Ch("}"), Many(Ws), Ch(")")>>)]]

WEAK_INDEXING ==
  [id |-> "WEAK_INDEXING",
   name |-> "Weak Indexing",
   severity |-> "medium",
   docUrl |->
     "https://www.mongodb.com/docs/manual/core/index-unique/",
   pattern |->
     [source |->
        "createIndex\\s*\\(\\s*\\{\\s*.*?\\s*\\}\\s*,\\s*\\{\\s*(?!.*?unique).*?\\}\\s*\\)",
      flags |-> {"i"},
      ast |-> Cat(<<Lits(<<"c", "r", "e", "a", "t", "e", "I", "n", "d", "e",
          "x">>), Many(Ws), Ch("("), Many(Ws), Ch("{"), Many(Ws),
          Many(AnyChar), Many(Ws), Ch("}"), Many(Ws), Ch(","), Many(Ws),
          Ch("{"), Many(Ws), NotAhead(Cat(<<Many(AnyChar), Lits(<<"u", "n",
          "i", "q", "u", "e">>)>>)), Many(AnyChar), Ch("}"), Many(Ws),
          Ch(")")>>)]]

DIRECT_JSON_PARSE ==
  [id |-> "DIRECT_JSON_PARSE",
   name |-> "Direct JSON Parse to Query",
   severity |-> "high",
   docUrl |->
     "https://www.mongodb.com/docs/manual/faq/fundamentals/#how-does-mongodb-address-sql-or-query-injection",
   pattern |->
     [source |->
        "JSON\\.parse\\s*\\(.*?\\)\\s*.*?(\\.find|\\.findOne|\\.update|\\.delete)",
      flags |-> {"i"},
      ast |-> Cat(<<Lits(<<"J", "S", "O", "N", ".", "p", "a", "r", "s",
          "e">>), Many(Ws), Ch("("), Many(AnyChar), Ch(")"), Many(Ws),
          Many(AnyChar), Alt(<<Lits(<<".", "f", "i", "n", "d">>), Lits(<<".",
          "f", "i", "n", "d", "O", "n", "e">>), Lits(<<".", "u", "p", "d",
          "a", "t", "e">>), Lits(<<".", "d", "e", "l", "e", "t",
          "e">>)>>)>>)]]

TRANSACTION_WITHOUT_ERROR_HANDLING ==
  [id |-> "TRANSACTION_WITHOUT_ERROR_HANDLING",
   name |-> "Transaction Without Error Handling",
   severity |-> "medium",
   docUrl |->
     "https://www.mongodb.com/docs/manual/core/transactions-in-applications/#error-handling",
   pattern |->
     [source |->
        "startSession\\s*\\(\\s*\\).*?withTransaction.*?(?!\\s*catch\\s*\\()",
      flags |-> {"i"},
      ast |-> Cat(<<Lits(<<"s", "t", "a", "r", "t", "S", "e", "s", "s", "i",
          "o", "n">>), Many(Ws), Ch("("), Many(Ws), Ch(")"), Many(AnyChar),
          Lits(<<"w", "i", "t", "h", "T", "r", "a", "n", "s", "a", "c", "t",
          "i", "o", "n">>), Many(AnyChar), NotAhead(Cat(<<Many(Ws),
          Lits(<<"c", "a", "t", "c", "h">>), Many(Ws), Ch("(")>>))>>)]]

NOSQL_INJECTION_OBJECT ==
  [id |-> "NOSQL_INJECTION_OBJECT",
   name |-> "NoSQL Injection (Object)",
   severity |-> "high",
   docUrl |->
     "https://www.mongodb.com/docs/manual/reference/operator/query/where/#security",
   pattern |->
     [source |->
        "\\{\\s*(\\$where|\\$expr)\\s*:",
      flags |-> {"i"},
      ast |-> Cat(<<Ch("{"), Many(Ws), Alt(<<Lits(<<"$", "w", "h", "e", "r",
          "e">>), Lits(<<"$", "e", "x", "p", "r">>)>>), Many(Ws), Ch(":")>>)]]

NOSQL_INJECTION_REGEX ==
  [id |-> "NOSQL_INJECTION_REGEX",
   name |-> "NoSQL Injection (Regex)",
   severity |-> "high",
   docUrl |->
     "https://www.mongodb.com/docs/manual/reference/operator/query/regex/#security",
   pattern |->
     [source |->
        "\\{\\s*['\"a-zA-Z0-9_]+\\s*:\\s*new\\s+RegExp\\s*\\(\\s*.*?\\s*\\)",
      flags |-> {"i"},
      ast |-> Cat(<<Ch("{"), Many(Ws), Some(In({"'", "\""} \cup LowerLetters
          \cup UpperLetters \cup Digits \cup {"_"})), Many(Ws), Ch(":"),
          Many(Ws), Lits(<<"n", "e", "w">>), Some(Ws), Lits(<<"R", "e", "g",
          "E", "x", "p">>), Many(Ws), Ch("("), Many(Ws), Many(AnyChar),
          Many(Ws), Ch(")")>>)]]

NOSQL_INJECTION_STRING ==
  [id |-> "NOSQL_INJECTION_STRING",
   name |-> "NoSQL Injection (String Concatenation)",
   severity |-> "high",
   docUrl |->
     "https://www.mongodb.com/docs/manual/faq/fundamentals/#how-does-mongodb-address-sql-or-query-injection",
   pattern |->
     [source |->
        "db\\.[a-zA-Z0-9_]+\\.(find|findOne|aggregate|update|delete)\\s*\\(\\s*['\"\\x60]\\s*\\{\\s*.*?\\$.*?\\}\\s*['\"\\x60]\\s*\\+",
      flags |-> {"i"},
      ast |-> Cat(<<Lits(<<"d", "b", ".">>), Some(In(LowerLetters \cup
          UpperLetters \cup Digits \cup {"_"})), Ch("."), Alt(<<Lits(<<"f",
          "i", "n", "d">>), Lits(<<"f", "i", "n", "d", "O", "n", "e">>),
          Lits(<<"a", "g", "g", "r", "e", "g", "a", "t", "e">>), Lits(<<"u",
          "p", "d", "a", "t", "e">>), Lits(<<"d", "e", "l", "e", "t",
          "e">>)>>), Many(Ws), Ch("("), Many(Ws), In({"'", "\"", BackTick}),
          Many(Ws), Ch("{"), Many(Ws), Many(AnyChar), Ch("$"), Many(AnyChar),
          Ch("}"), Many(Ws), In({"'", "\"", BackTick}), Many(Ws), Ch("+")>>)]]

UNVALIDATED_USER_INPUT ==
  [id |-> "UNVALIDATED_USER_INPUT",
   name |-> "Unvalidated User Input in Query",
   severity |-> "high",
   docUrl |->
     "https://www.mongodb.com/docs/manual/core/security-input-validation/",
   pattern |->
     [source |->
        "\\{\\s*['\"a-zA-Z0-9_]+\\s*:\\s*req\\.body\\.|req\\.params\\.|req\\.query\\.",
      flags |-> {"i"},
      ast |-> Alt(<<Cat(<<Ch("{"), Many(Ws), Some(In({"'", "\""} \cup
          LowerLetters \cup UpperLetters \cup Digits \cup {"_"})), Many(Ws),
          Ch(":"), Many(Ws), Lits(<<"r", "e", "q", ".", "b", "o", "d", "y",
          ".">>)>>), Lits(<<"r", "e", "q", ".", "p", "a", "r", "a", "m", "s",
          ".">>), Lits(<<"r", "e", "q", ".", "q", "u", "e", "r", "y",
          ".">>)>>)]]

INSECURE_PROJECTION ==
  [id |-> "INSECURE_PROJECTION",
   name |-> "Insecure Projection",
   severity |-> "medium",
   docUrl |->
     "https://www.mongodb.com/docs/manual/reference/operator/projection/positional/#security",
   pattern |->
     [source |->
        "\\.(find|findOne)\\s*\\(\\s*.*?\\s*,\\s*\\{\\s*(['\"a-zA-Z0-9_]+\\s*:\\s*0|['\"a-zA-Z0-9_]+\\s*:\\s*false)\\s*\\}",
      flags |-> {"i"},
      ast |-> Cat(<<Ch("."), Alt(<<Lits(<<"f", "i", "n", "d">>), Lits(<<"f",
          "i", "n", "d", "O", "n", "e">>)>>), Many(Ws), Ch("("), Many(Ws),
          Many(AnyChar), Many(Ws), Ch(","), Many(Ws), Ch("{"), Many(Ws),
          Alt(<<Cat(<<Some(In({"'", "\""} \cup LowerLetters \cup UpperLetters
          \cup Digits \cup {"_"})), Many(Ws), Ch(":"), Many(Ws), Ch("0")>>),
          Cat(<<Some(In({"'", "\""} \cup LowerLetters \cup UpperLetters \cup
          Digits \cup {"_"})), Many(Ws), Ch(":"), Many(Ws), Lits(<<"f", "a",
          "l", "s", "e">>)>>)>>), Many(Ws), Ch("}")>>)]]

INSECURE_AGGREGATION ==
  [id |-> "INSECURE_AGGREGATION",
   name |-> "Insecure Aggregation Pipeline",
   severity |-> "high",
   docUrl |->
     "https://www.mongodb.com/docs/manual/reference/operator/aggregation/project/#security",
   pattern |->
     [source |->
        "\\.aggregate\\s*\\(\\s*\\[\\s*\\{\\s*\\$project\\s*:\\s*\\{.*?(\\$literal|\\$eval|\\$function).*?\\}\\s*\\}",
      flags |-> {"i"},
      ast |-> Cat(<<Lits(<<".", "a", "g", "g", "r", "e", "g", "a", "t",
          "e">>), Many(Ws), Ch("("), Many(Ws), Ch("["), Many(Ws), Ch("{"),
          Many(Ws), Lits(<<"$", "p", "r", "o", "j", "e", "c", "t">>),
          Many(Ws), Ch(":"), Many(Ws), Ch("{"), Many(AnyChar),
          Alt(<<Lits(<<"$", "l", "i", "t", "e", "r", "a", "l">>), Lits(<<"$",
          "e", "v", "a", "l">>), Lits(<<"$", "f", "u", "n", "c", "t", "i",
          "o", "n">>)>>), Many(AnyChar), Ch("}"), Many(Ws), Ch("}")>>)]]

UNCONSTRAINED_QUERY ==
  [id |-> "UNCONSTRAINED_QUERY",
   name |-> "Unconstrained Query",
   severity |-> "medium",
   docUrl |->
     "https://www.mongodb.com/docs/manual/reference/method/db.collection.find/#security",
   pattern |->
     [source |->
        "\\.(find|findOne|update|delete)\\s*\\(\\s*\\{\\s*\\}\\s*\\)",
      flags |-> {"i"},
      ast |-> Cat(<<Ch("."), Alt(<<Lits(<<"f", "i", "n", "d">>), Lits(<<"f",
          "i", "n", "d", "O", "n", "e">>), Lits(<<"u", "p", "d", "a", "t",
          "e">>), Lits(<<"d", "e", "l", "e", "t", "e">>)>>), Many(Ws),
          Ch("("), Many(Ws), Ch("{"), Many(Ws), Ch("}"), Many(Ws),
          Ch(")")>>)]]

MASS_ASSIGNMENT ==
  [id |-> "MASS_ASSIGNMENT",
   name |-> "Mass Assignment Vulnerability",
   severity |-> "high",
   docUrl |->
     "https://www.mongodb.com/docs/manual/core/security-input-validation/",
   pattern |->
     [source |->
        "\\.(insertOne|insertMany|updateOne|updateMany|findOneAndUpdate)\\s*\\(\\s*.*?,\\s*\\{\\s*\\$set\\s*:\\s*req\\.body\\s*\\}",
      flags |-> {"i"},
      ast |-> Cat(<<Ch("."), Alt(<<Lits(<<"i", "n", "s", "e", "r", "t", "O",
          "n", "e">>), Lits(<<"i", "n", "s", "e", "r", "t", "M", "a", "n",
          "y">>), Lits(<<"u", "p", "d", "a", "t", "e", "O", "n", "e">>),
          Lits(<<"u", "p", "d", "a", "t", "e", "M", "a", "n", "y">>),
          Lits(<<"f", "i", "n", "d", "O", "n", "e", "A", "n", "d", "U", "p",
          "d", "a", "t", "e">>)>>), Many(Ws), Ch("("), Many(Ws),
          Many(AnyChar), Ch(","), Many(Ws), Ch("{"), Many(Ws), Lits(<<"$",
          "s", "e", "t">>), Many(Ws), Ch(":"), Many(Ws), Lits(<<"r", "e", "q",
          ".", "b", "o", "d", "y">>), Many(Ws), Ch("}")>>)]]

INSECURE_INDEXING ==
  [id |-> "INSECURE_INDEXING",
   name |-> "Insecure Text Indexing",
   severity |-> "medium",
   docUrl |->
     "https://www.mongodb.com/docs/manual/core/text-search-languages/#security",
   pattern |->
     [source |->
        "createIndex\\s*\\(\\s*\\{\\s*.*?:\\s*['\"]text['\"]\\s*\\}",
      flags |-> {"i"},
      ast |-> Cat(<<Lits(<<"c", "r", "e", "a", "t", "e", "I", "n", "d", "e",
          "x">>), Many(Ws), Ch("("), Many(Ws), Ch("{"), Many(Ws),
          Many(AnyChar), Ch(":"), Many(Ws), In({"'", "\""}), Lits(<<"t", "e",
          "x", "t">>), In({"'", "\""}), Many(Ws), Ch("}")>>)]]

UNAUTHORIZED_SCHEMA_MODIFICATION ==
  [id |-> "UNAUTHORIZED_SCHEMA_MODIFICATION",
   name |-> "Unauthorized Schema Modification",
   severity |-> "medium",
   docUrl |->
     "https://www.mongodb.com/docs/manual/core/security-operations/#security",
   pattern |->
     [source |->
        "\\.(createCollection|dropCollection|createIndex|dropIndex)\\s*\\(",
      flags |-> {"i"},
      ast |-> Cat(<<Ch("."), Alt(<<Lits(<<"c", "r", "e", "a", "t", "e", "C",
          "o", "l", "l", "e", "c", "t", "i", "o", "n">>), Lits(<<"d", "r",
          "o", "p", "C", "o", "l", "l", "e", "c", "t", "i", "o", "n">>),
          Lits(<<"c", "r", "e", "a", "t", "e", "I", "n", "d", "e", "x">>),
          Lits(<<"d", "r", "o", "p", "I", "n", "d", "e", "x">>)>>), Many(Ws),
          Ch("(")>>)]]

INSECURE_OPERATOR_USAGE ==
  [id |-> "INSECURE_OPERATOR_USAGE",
   name |-> "Insecure Operator Usage",
   severity |-> "high",
   docUrl |->
     "https://www.mongodb.com/docs/manual/reference/operator/query/ne/#security",
   pattern |->
     [source |->
        "\\{\\s*\\$ne\\s*:|\"\\$ne\"\\s*:|'\\$ne'\\s*:",
      flags |-> {"i"},
      ast |-> Alt(<<Cat(<<Ch("{"), Many(Ws), Lits(<<"$", "n", "e">>),
          Many(Ws), Ch(":")>>), Cat(<<Lits(<<"\"", "$", "n", "e", "\"">>),
          Many(Ws), Ch(":")>>), Cat(<<Lits(<<"'", "$", "n", "e", "'">>),
          Many(Ws), Ch(":")>>)>>)]]

UNVALIDATED_ID ==
  [id |-> "UNVALIDATED_ID",
   name |-> "Unvalidated MongoDB ObjectId",
   severity |-> "medium",
   docUrl |->
     "https://www.mongodb.com/docs/manual/reference/method/ObjectId/#security",
   pattern |->
     [source |->
        "(?<!isValid\\()new\\s+ObjectId\\s*\\(\\s*.*?req\\.(body|params|query)",
      flags |-> {"i"},
      ast |-> Cat(<<NotBehind(Lits(<<"i", "s", "V", "a", "l", "i", "d",
          "(">>)), Lits(<<"n", "e", "w">>), Some(Ws), Lits(<<"O", "b", "j",
          "e", "c", "t", "I", "d">>), Many(Ws), Ch("("), Many(Ws),
          Many(AnyChar), Lits(<<"r", "e", "q", ".">>), Alt(<<Lits(<<"b", "o",
          "d", "y">>), Lits(<<"p", "a", "r", "a", "m", "s">>), Lits(<<"q",
          "u", "e", "r", "y">>)>>)>>)]]

PROJECTION_INJECTION ==
  [id |-> "PROJECTION_INJECTION",
   name |-> "Projection Injection",
   severity |-> "high",
   docUrl |->
     "https://www.mongodb.com/docs/manual/reference/operator/projection/positional/#security",
   pattern |->
     [source |->
        "\\.(find|findOne)\\s*\\(\\s*.*?\\s*,\\s*req\\.(body|params|query)",
      flags |-> {"i"},
      ast |-> Cat(<<Ch("."), Alt(<<Lits(<<"f", "i", "n", "d">>), Lits(<<"f",
          "i", "n", "d", "O", "n", "e">>)>>), Many(Ws), Ch("("), Many(Ws),
          Many(AnyChar), Many(Ws), Ch(","), Many(Ws), Lits(<<"r", "e", "q",
          ".">>), Alt(<<Lits(<<"b", "o", "d", "y">>), Lits(<<"p", "a", "r",
          "a", "m", "s">>), Lits(<<"q", "u", "e", "r", "y">>)>>)>>)]]

UNCONTROLLED_LIMIT ==
  [id |-> "UNCONTROLLED_LIMIT",
   name |-> "Uncontrolled Query Limit",
   severity |-> "medium",
   docUrl |->
     "https://www.mongodb.com/docs/manual/reference/method/db.collection.find/#security",
   pattern |->
     [source |->
        "\\.limit\\s*\\(\\s*req\\.(body|params|query)",
      flags |-> {"i"},
      ast |-> Cat(<<Lits(<<".", "l", "i", "m", "i", "t">>), Many(Ws), Ch("("),
          Many(Ws), Lits(<<"r", "e", "q", ".">>), Alt(<<Lits(<<"b", "o", "d",
          "y">>), Lits(<<"p", "a", "r", "a", "m", "s">>), Lits(<<"q", "u",
          "e", "r", "y">>)>>)>>)]]

SORT_INJECTION ==
  [id |-> "SORT_INJECTION",
   name |-> "Sort Injection",
   severity |-> "medium",
   docUrl |->
     "https://www.mongodb.com/docs/manual/reference/method/db.collection.find/#security",
   pattern |->
     [source |->
        "\\.sort\\s*\\(\\s*req\\.(body|params|query)",
      flags |-> {"i"},
      ast |-> Cat(<<Lits(<<".", "s", "o", "r", "t">>), Many(Ws), Ch("("),
          Many(Ws), Lits(<<"r", "e", "q", ".">>), Alt(<<Lits(<<"b", "o", "d",
          "y">>), Lits(<<"p", "a", "r", "a", "m", "s">>), Lits(<<"q", "u",
          "e", "r", "y">>)>>)>>)]]

OBJECT_SPREAD_INJECTION ==
  [id |-> "OBJECT_SPREAD_INJECTION",
   name |-> "Object Spread Injection",
   severity |-> "high",
   docUrl |->
     "https://www.mongodb.com/docs/manual/reference/operator/query/positional/#security",
   pattern |->
     [source |->
        "\\.(find|findOne|aggregate|update|delete)\\s*\\(\\s*\\{\\s*.*?,?\\s*\\.\\.\\.(\\w+).*?\\}",
      flags |-> {"i"},
      ast |-> Cat(<<Ch("."), Alt(<<Lits(<<"f", "i", "n", "d">>), Lits(<<"f",
          "i", "n", "d", "O", "n", "e">>), Lits(<<"a", "g", "g", "r", "e",
          "g", "a", "t", "e">>), Lits(<<"u", "p", "d", "a", "t", "e">>),
          Lits(<<"d", "e", "l", "e", "t", "e">>)>>), Many(Ws), Ch("("),
          Many(Ws), Ch("{"), Many(Ws), Many(AnyChar), Opt(Ch(",")), Many(Ws),
          Lits(<<".", ".", ".">>), Some(Wd), Many(AnyChar), Ch("}")>>)]]

DYNAMIC_OPERATOR_ASSIGNMENT ==
  [id |-> "DYNAMIC_OPERATOR_ASSIGNMENT",
   name |-> "Dynamic Operator Assignment",
   severity |-> "medium",
   docUrl |->
     "https://www.mongodb.com/docs/manual/reference/operator/query/positional/#security",
   pattern |->
     [source |->
        "\\w+\\s*=\\s*\\{\\s*\\$\\w+:",
      flags |-> {"i"},
      ast |-> Cat(<<Some(Wd), Many(Ws), Ch("="), Many(Ws), Ch("{"), Many(Ws),
          Ch("$"), Some(Wd), Ch(":")>>)]]

MONGOOSE_QUERY_EXEC_MISSING ==
  [id |-> "MONGOOSE_QUERY_EXEC_MISSING",
   name |-> "Mongoose Query Exec Missing",
   severity |-> "low",
   docUrl |->
     "https://www.mongodb.com/docs/manual/reference/method/db.collection.find/#security",
   pattern |->
     [source |->
        "\\.(find|findOne|findById|update|delete|count)(?!\\s*\\(\\s*\\)|\\s*\\(\\s*.*?\\s*\\)\\s*\\.(exec|then|catch)\\b)",
      flags |-> {"i"},
      ast |-> Cat(<<Ch("."), Alt(<<Lits(<<"f", "i", "n", "d">>), Lits(<<"f",
          "i", "n", "d", "O", "n", "e">>), Lits(<<"f", "i", "n", "d", "B",
          "y", "I", "d">>), Lits(<<"u", "p", "d", "a", "t", "e">>),
          Lits(<<"d", "e", "l", "e", "t", "e">>), Lits(<<"c", "o", "u", "n",
          "t">>)>>), NotAhead(Alt(<<Cat(<<Many(Ws), Ch("("), Many(Ws),
          Ch(")")>>), Cat(<<Many(Ws), Ch("("), Many(Ws), Many(AnyChar),
          Many(Ws), Ch(")"), Many(Ws), Ch("."), Alt(<<Lits(<<"e", "x", "e",
          "c">>), Lits(<<"t", "h", "e", "n">>), Lits(<<"c", "a", "t", "c",
          "h">>)>>), WordBoundary>>)>>))>>)]]

UNHANDLED_PROMISE_REJECTION ==
  [id |-> "UNHANDLED_PROMISE_REJECTION",
   name |-> "Unhandled Promise Rejection",
   severity |-> "medium",
   docUrl |->
     "https://www.mongodb.com/docs/manual/core/transactions-in-applications/#error-handling",
   pattern |->
     [source |->
        "await\\s+(\\w+\\.)*(find|findOne|findById|update|delete|aggregate|count).*?(?!\\s*try\\s*\\{)",
      flags |-> {"i"},
      ast |-> Cat(<<Lits(<<"a", "w", "a", "i", "t">>), Some(Ws),
          Many(Cat(<<Some(Wd), Ch(".")>>)), Alt(<<Lits(<<"f", "i", "n",
          "d">>), Lits(<<"f", "i", "n", "d", "O", "n", "e">>), Lits(<<"f",
          "i", "n", "d", "B", "y", "I", "d">>), Lits(<<"u", "p", "d", "a",
          "t", "e">>), Lits(<<"d", "e", "l", "e", "t", "e">>), Lits(<<"a",
          "g", "g", "r", "e", "g", "a", "t", "e">>), Lits(<<"c", "o", "u",
          "n", "t">>)>>), Many(AnyChar), NotAhead(Cat(<<Many(Ws), Lits(<<"t",
          "r", "y">>), Many(Ws), Ch("{")>>))>>)]]

UNESCAPED_REGEX_INPUT ==
  [id |-> "UNESCAPED_REGEX_INPUT",
   name |-> "Unescaped Regex Input",
   severity |-> "high",
   docUrl |->
     "https://www.mongodb.com/docs/manual/reference/operator/query/regex/#security",
   pattern |->
     [source |->
        "\\{\\s*['\"a-zA-Z0-9_]+\\s*:\\s*\\{\\s*\\$regex\\s*:\\s*(\\w+)(?!\\()",
      flags |-> {"i"},
      ast |-> Cat(<<Ch("{"), Many(Ws), Some(In({"'", "\""} \cup LowerLetters
          \cup UpperLetters \cup Digits \cup {"_"})), Many(Ws), Ch(":"),
          Many(Ws), Ch("{"), Many(Ws), Lits(<<"$", "r", "e", "g", "e", "x">>),
          Many(Ws), Ch(":"), Many(Ws), Some(Wd), NotAhead(Ch("("))>>)]]

SENSITIVE_FIELD_EXPOSURE ==
  [id |-> "SENSITIVE_FIELD_EXPOSURE",
   name |-> "Sensitive Field Exposure",
   severity |-> "high",
   docUrl |->
     "https://www.mongodb.com/docs/manual/reference/method/db.collection.find/#security",
   pattern |->
     [source |->
        "\\.\\s*find.*\\{\\s*\\}\\s*(?!.*\\{\\s*password\\s*:\\s*0|\\s*passwordHash\\s*:\\s*0)",
      flags |-> {"i"},
      ast |-> Cat(<<Ch("."), Many(Ws), Lits(<<"f", "i", "n", "d">>),
          Many(AnyChar), Ch("{"), Many(Ws), Ch("}"), Many(Ws),
          NotAhead(Alt(<<Cat(<<Many(AnyChar), Ch("{"), Many(Ws), Lits(<<"p",
          "a", "s", "s", "w", "o", "r", "d">>), Many(Ws), Ch(":"), Many(Ws),
          Ch("0")>>), Cat(<<Many(Ws), Lits(<<"p", "a", "s", "s", "w", "o",
          "r", "d", "H", "a", "s", "h">>), Many(Ws), Ch(":"), Many(Ws),
          Ch("0")>>)>>))>>)]]

UNCONTROLLED_SKIP ==
  [id |-> "UNCONTROLLED_SKIP",
   name |-> "Uncontrolled Skip Value",
   severity |-> "medium",
   docUrl |->
     "https://www.mongodb.com/docs/manual/reference/method/db.collection.find/#security",
   pattern |->
     [source |->
        "\\.skip\\s*\\(\\s*req\\.(body|params|query)",
      flags |-> {"i"},
      ast |-> Cat(<<Lits(<<".", "s", "k", "i", "p">>), Many(Ws), Ch("("),
          Many(Ws), Lits(<<"r", "e", "q", ".">>), Alt(<<Lits(<<"b", "o", "d",
          "y">>), Lits(<<"p", "a", "r", "a", "m", "s">>), Lits(<<"q", "u",
          "e", "r", "y">>)>>)>>)]]

SECRETS_IN_QUERY ==
  [id |-> "SECRETS_IN_QUERY",
   name |-> "Secrets in Query",
   severity |-> "high",
   docUrl |->
     "https://www.mongodb.com/docs/manual/core/security-input-validation/",
   pattern |->
     [source |->
        "(api[_-]?key|secret|password|token|auth[_-]?token|credential)[^\\n]{1,30}(=|:)[^\\n]{1,30}",
      flags |-> {"i"},
      ast |-> Cat(<<Alt(<<Cat(<<Lits(<<"a", "p", "i">>), Opt(In({"_", "-"})),
          Lits(<<"k", "e", "y">>)>>), Lits(<<"s", "e", "c", "r", "e", "t">>),
          Lits(<<"p", "a", "s", "s", "w", "o", "r", "d">>), Lits(<<"t", "o",
          "k", "e", "n">>), Cat(<<Lits(<<"a", "u", "t", "h">>), Opt(In({"_",
          "-"})), Lits(<<"t", "o", "k", "e", "n">>)>>), Lits(<<"c", "r", "e",
          "d", "e", "n", "t", "i", "a", "l">>)>>), Rep(NotIn({"\n"}), 1, 30),
          Alt(<<Ch("="), Ch(":")>>), Rep(NotIn({"\n"}), 1, 30)>>)]]

DANGEROUS_PROJECTION ==
  [id |-> "DANGEROUS_PROJECTION",
   name |-> "Dangerous Projection Operators",
   severity |-> "high",
   docUrl |->
     "https://www.mongodb.com/docs/manual/reference/operator/projection/positional/#security",
   pattern |->
     [source |->
        "\\$\\s*:\\s*(\\{|\\[|\\$)",
      flags |-> {"i"},
      ast |-> Cat(<<Ch("$"), Many(Ws), Ch(":"), Many(Ws), Alt(<<Ch("{"),
          Ch("["), Ch("$")>>)>>)]]

UNVALIDATED_UPDATE_OPERATORS ==
  [id |-> "UNVALIDATED_UPDATE_OPERATORS",
   name |-> "Unvalidated Update Operators",
   severity |-> "high",
   docUrl |->
     "https://www.mongodb.com/docs/manual/core/security-input-validation/",
   pattern |->
     [source |->
        "\\.\\s*(update|updateOne|updateMany|findOneAndUpdate)\\s*\\(\\s*.*?,\\s*\\{\\s*\\$\\w+\\s*:",
      flags |-> {"i"},
      ast |-> Cat(<<Ch("."), Many(Ws), Alt(<<Lits(<<"u", "p", "d", "a", "t",
          "e">>), Lits(<<"u", "p", "d", "a", "t", "e", "O", "n", "e">>),
          Lits(<<"u", "p", "d", "a", "t", "e", "M", "a", "n", "y">>),
          Lits(<<"f", "i", "n", "d", "O", "n", "e", "A", "n", "d", "U", "p",
          "d", "a", "t", "e">>)>>), Many(Ws), Ch("("), Many(Ws),
          Many(AnyChar), Ch(","), Many(Ws), Ch("{"), Many(Ws), Ch("$"),
          Some(Wd), Many(Ws), Ch(":")>>)]]

\* the mutant: a catalog that lists a rule twice
CatalogRepeated == <<FUNCTION_PARAMETER_INJECTION, TEMPLATE_STRING_INJECTION, FUNCTION_PARAMETER_INJECTION>>

\* export const unsafePatterns
Catalog ==
  <<FUNCTION_PARAMETER_INJECTION, TEMPLATE_STRING_INJECTION,
    ARRAY_FILTER_INJECTION, DIRECT_QUERY_VARIABLE_ASSIGNMENT,
    BULK_OPERATION_INJECTION, EVAL_USAGE, INSECURE_AUTH_CHECKS, WEAK_INDEXING,
    DIRECT_JSON_PARSE, TRANSACTION_WITHOUT_ERROR_HANDLING,
    NOSQL_INJECTION_OBJECT, NOSQL_INJECTION_REGEX, NOSQL_INJECTION_STRING,
    UNVALIDATED_USER_INPUT, INSECURE_PROJECTION, INSECURE_AGGREGATION,
    UNCONSTRAINED_QUERY, MASS_ASSIGNMENT, INSECURE_INDEXING,
    UNAUTHORIZED_SCHEMA_MODIFICATION, INSECURE_OPERATOR_USAGE, UNVALIDATED_ID,
    PROJECTION_INJECTION, UNCONTROLLED_LIMIT, SORT_INJECTION,
    OBJECT_SPREAD_INJECTION, DYNAMIC_OPERATOR_ASSIGNMENT,
    MONGOOSE_QUERY_EXEC_MISSING, UNHANDLED_PROMISE_REJECTION,
    UNESCAPED_REGEX_INPUT, SENSITIVE_FIELD_EXPOSURE, UNCONTROLLED_SKIP,
    SECRETS_IN_QUERY, DANGEROUS_PROJECTION, UNVALIDATED_UPDATE_OPERATORS>>

(* --------------------------- RegExp.test ------------------------------- *)

\* the mutant: the regular expression carries the flag g
IsGlobalAlways(regexp) == TRUE

\* RegExp.prototype.global
IsGlobal(regexp) == "g" \in regexp.flags

\* RegExp.prototype.test on a regular expression whose lastIndex is li: the
\* result and the lastIndex it leaves.  Without the flag g the search starts
\* at 0 and lastIndex is left alone.  A regular expression of the catalog
\* is given as its pattern tree; none of them carries the flag g.
RegExpTest(regexp, s, li) ==
  IF "ast" \in DOMAIN regexp
  THEN [matched |-> Matches(regexp, s, 0), lastIndex |-> li]
  ELSE
  LET e == Search(regexp.source, s, IF IsGlobal(regexp) THEN li ELSE 0)
  IN  [matched   |-> e # -1,
       lastIndex |-> IF IsGlobal(regexp)
                     THEN (IF e # -1 THEN e ELSE 0)
                     ELSE li]

(* ------------------------------ state ---------------------------------- *)

VARIABLES
  unsafePatterns,  \* the rule list the scans are run with
  lastIndex,       \* lastIndex of each rule's RegExp object
  scans,           \* the activation of scanForUnsafePatterns of each caller
  phase,           \* of the extension: inactive, active or deactivated
  documents,       \* the open text documents, by uri
  activeTextEditor,      \* vscode.window.activeTextEditor: the uri of its
                         \* document, or NoEditor
  diagnosticCollection,  \* the diagnostics published for each uri
  currentPanel,    \* the webview panel of the details, or NoPanel
  webviewPanels,   \* the webview panels created so far, by handle
  providers,       \* the number of registered code-action providers
  presented        \* the severity values presented so far

vars ==
  <<unsafePatterns, lastIndex, scans, phase, documents, activeTextEditor,
    diagnosticCollection, currentPanel, webviewPanels, providers, presented>>

\* the variables of the extension
extVars ==
  <<phase, documents, activeTextEditor, diagnosticCollection, currentPanel,
    webviewPanels, providers, presented>>

\* vscode.window.activeTextEditor is undefined
NoEditor == "undefined"

\* currentPanel is undefined
NoPanel == [title |-> "undefined"]

\* the extension is not loaded and no document is open
ExtensionAtRest ==
  /\ phase = "inactive"
  /\ documents = <<>>
  /\ activeTextEditor = NoEditor
  /\ diagnosticCollection = <<>>
  /\ currentPanel = NoPanel
  /\ webviewPanels = <<>>
  /\ providers = 0
  /\ presented = <<>>

Callers == {"c1", "c2"}

\* no activation: the caller is outside scanForUnsafePatterns
Idle ==
  [status |-> "idle", content |-> <<>>, filePath |-> NoPath,
   patterns |-> <<>>, lines |-> <<>>, index |-> 0, p |-> 0,
   detections |-> <<>>, visited |-> <<>>]

\* the mutant: the detection carries the zero-based index
DetectionZeroBased(pattern, line, index) ==
  [pattern |-> pattern, lineNumber |-> index, matchedText |-> Trim(line)]

\* the object pushed on detections
Detection(pattern, line, index) ==
  [pattern |-> pattern, lineNumber |-> index + 1, matchedText |-> Trim(line)]

\* the mutant: the last line is never visited
LoopEndsSkipLast(f) ==
  f.patterns = <<>> \/ f.index + 1 >= Len(f.lines)

\* both forEach loops are exhausted at position (index, p)
LoopEnds(f) ==
  f.patterns = <<>> \/ f.index >= Len(f.lines)

\* the mutant: the lines loop restarts the patterns loop one rule late
AfterVisitSkipFirst(f) ==
  IF f.p < Len(f.patterns) THEN [f EXCEPT !.p = f.p + 1]
  ELSE [f EXCEPT !.index = f.index + 1,
                 !.p = IF Len(f.patterns) > 1 THEN 2 ELSE 1]

\* the mutant: the loops are nested the other way round, rules outside
AfterVisitRulesOuter(f) ==
  IF f.index + 1 < Len(f.lines) THEN [f EXCEPT !.index = f.index + 1]
  ELSE IF f.p < Len(f.patterns) THEN [f EXCEPT !.index = 0, !.p = f.p + 1]
  ELSE [f EXCEPT !.index = Len(f.lines)]

\* the position after the callback of patterns.forEach returns
AfterVisit(f) ==
  IF f.p < Len(f.patterns) THEN [f EXCEPT !.p = f.p + 1]
  ELSE [f EXCEPT !.index = f.index + 1, !.p = 1]

\* the mutant: the regular expression is tested on the whole text
TestedTextWhole(f) == f.content

\* the argument of pattern.pattern.test: the current element of lines
TestedText(f) == f.lines[f.index + 1]

\* return detections, once the loops are exhausted
Settle(f) ==
  IF LoopEnds(f) THEN [f EXCEPT !.status = "done"] ELSE f

Init ==
  /\ unsafePatterns \in RuleLists
  /\ lastIndex = [id \in RuleIds |-> 0]
  /\ scans = [c \in Callers |-> Idle]
  /\ ExtensionAtRest

\* the activation after the self-exclusion test and the split
Enter(content, patterns, filePath) ==
  IF IsPatternsFile(filePath)
  THEN [Idle EXCEPT !.status = "done", !.content = content,
                    !.filePath = filePath, !.patterns = patterns]
  ELSE Settle([Idle EXCEPT !.status = "running", !.content = content,
                           !.filePath = filePath, !.patterns = patterns,
                           !.lines = Split(content), !.index = 0, !.p = 1])

\* one callback of patterns.forEach: pattern.pattern.test(line) and the
\* push, on the RegExp objects as li describes them
Callback(f, li) ==
  LET line == f.lines[f.index + 1]
      pattern == f.patterns[f.p]
      t == RegExpTest(pattern.pattern, TestedText(f), li[pattern.id])
      g == [f EXCEPT
              !.detections = IF t.matched
                             THEN Append(@, Detection(pattern, line, f.index))
                             ELSE @,
              !.visited = Append(@, <<f.index, f.p>>)]
  IN  [scan |-> Settle(AfterVisit(g)),
       lastIndex |-> [li EXCEPT ![pattern.id] = t.lastIndex]]

\* scanForUnsafePatterns(content, patterns, filePath) is entered
Call(c, content, filePath) ==
  /\ scans[c].status = "idle"
  /\ scans' = [scans EXCEPT ![c] = Enter(content, unsafePatterns, filePath)]
  /\ UNCHANGED <<unsafePatterns, lastIndex, extVars>>

\* the next callback of the scan of caller c runs
Visit(c) ==
  /\ scans[c].status = "running"
  /\ scans' = [scans EXCEPT ![c] = Callback(scans[c], lastIndex).scan]
  /\ lastIndex' = Callback(scans[c], lastIndex).lastIndex
  /\ UNCHANGED <<unsafePatterns, extVars>>

\* the caller takes the returned detections
Return(c) ==
  /\ scans[c].status = "done"
  /\ scans' = [scans EXCEPT ![c] = Idle]
  /\ UNCHANGED <<unsafePatterns, lastIndex, extVars>>

Texts == TextsOf(MaxLen)

Next ==
  \/ \E content \in Texts, filePath \in FilePaths : Call("c1", content, filePath)
  \/ Visit("c1")
  \/ Return("c1")

Spec == Init /\ [][Next]_vars

(* ---------------- scans of several callers, interleaved ---------------- *)

\* the texts of the interleaved scans: lines of the literal and line breaks
ConcTexts ==
  {t \in TextsOf(MaxConcLen) : \A k \in DOMAIN t : t[k] \in {"a", "\n"}}

ConcFilePaths == {NoPath, PathOf(<<"unsafe-queries", ".ts">>)}

\* the rule list the interleaved callers share
ConcRuleLists == { <<LiteralRule, SpacedRule>> }

InitConc ==
  /\ unsafePatterns \in ConcRuleLists
  /\ lastIndex = [id \in RuleIds |-> 0]
  /\ scans = [c \in Callers |-> Idle]
  /\ ExtensionAtRest

NextConc ==
  \E c \in Callers :
    \/ \E content \in ConcTexts, filePath \in ConcFilePaths :
         Call(c, content, filePath)
    \/ Visit(c)
    \/ Return(c)

SpecConc == InitConc /\ [][NextConc]_vars

\* a scan run alone, from its entry to its return, on fresh RegExp objects
RECURSIVE RunAlone(_, _)
RunAlone(f, li) ==
  IF f.status = "done" THEN f
  ELSE RunAlone(Callback(f, li).scan, Callback(f, li).lastIndex)

ScanAlone(content, patterns, filePath) ==
  RunAlone(Enter(content, patterns, filePath), [id \in RuleIds |-> 0]).detections

(* ------------- the scan function defined first in the file ------------ *)

\* patterns.forEach of the first scanForUnsafePatterns, from the rule at p on,
\* for the line at index: acc holds the detections pushed so far and the
\* lastIndex of the RegExp objects
RECURSIVE PatternsForEach(_, _, _, _, _)
PatternsForEach(patterns, p, line, index, acc) ==
  IF p > Len(patterns) THEN acc
  ELSE LET pattern == patterns[p]
           t == RegExpTest(pattern.pattern, line, acc.lastIndex[pattern.id])
       IN  PatternsForEach(patterns, p + 1, line, index,
             [detections |->
                IF t.matched
                THEN Append(acc.detections,
                            [pattern |-> pattern, lineNumber |-> index + 1,
                             matchedText |-> Trim(line)])
                ELSE acc.detections,
              lastIndex |-> [acc.lastIndex EXCEPT ![pattern.id] = t.lastIndex]])

\* lines.forEach of the first scanForUnsafePatterns, from the line at index on
RECURSIVE LinesForEach(_, _, _, _)
LinesForEach(lines, index, patterns, acc) ==
  IF index >= Len(lines) THEN acc
  ELSE LinesForEach(lines, index + 1, patterns,
                    PatternsForEach(patterns, 1, lines[index + 1], index, acc))

\* scanForUnsafePatterns(content, patterns) as the file defines it first,
\* without the parameter filePath, on fresh RegExp objects
scanForUnsafePatternsTwoArgs(content, patterns) ==
  LinesForEach(Split(content), 0, patterns,
               [detections |-> <<>>,
                lastIndex |-> [id \in RuleIds |-> 0]]).detections

(* --------------------- scans with the catalog -------------------------- *)

CatalogIds == {Catalog[k].id : k \in DOMAIN Catalog}

\* the example of NOSQL_INJECTION_OBJECT
WhereExample ==
  <<"d", "b", ".", "u", "s", "e", "r", "s", ".", "f", "i",
    "n", "d", "(", "{", " ", "$", "w", "h", "e", "r", "e", ":", " ", "\"",
    "t", "h", "i", "s", ".", "u", "s", "e", "r", "n", "a", "m", "e", " ", "=",
    "=", "=", " ", "'", "\"", " ", "+", " ", "u", "s", "e", "r", "n", "a",
    "m", "e", " ", "+", " ", "\"", "'", "\"", " ", "}", ")", ";">>

\* the example of UNCONSTRAINED_QUERY
UnconstrainedExample ==
  <<"d", "b", ".", "u", "s", "e", "r", "s", ".", "f",
    "i", "n", "d", "(", "{", "}", ")", ";">>

\* the safeExample of UNCONSTRAINED_QUERY
UnconstrainedSafeExample ==
  <<"d", "b", ".", "u", "s", "e", "r", "s", ".",
    "f", "i", "n", "d", "(", "{", " ", "a", "c", "t", "i", "v", "e", ":", " ",
    "t", "r", "u", "e", ",", " ", "r", "o", "l", "e", ":", " ", "\"", "u",
    "s", "e", "r", "\"", " ", "}", ")", ";">>

\* the texts scanned with the catalog: each example alone, and the three
\* as the lines of one text
CatalogTexts ==
  {WhereExample, UnconstrainedExample, UnconstrainedSafeExample,
   WhereExample \o <<"\n">> \o UnconstrainedExample \o <<"\n">>
     \o UnconstrainedSafeExample}

CatalogFilePaths == {NoPath, PathOf(<<"app", ".ts">>)}

InitCatalog ==
  /\ unsafePatterns = Catalog
  /\ lastIndex = [id \in CatalogIds |-> 0]
  /\ scans = [c \in Callers |-> Idle]
  /\ ExtensionAtRest

NextCatalog ==
  \/ \E content \in CatalogTexts, filePath \in CatalogFilePaths :
       Call("c1", content, filePath)
  \/ Visit("c1")
  \/ Return("c1")

SpecCatalog == InitCatalog /\ [][NextCatalog]_vars

(* ------------------------ severity presentation ------------------------ *)

\* vscode.DiagnosticSeverity
DiagnosticSeverity ==
  [Error |-> 0, Warning |-> 1, Information |-> 2, Hint |-> 3]

\* the mutant: the fallback colour is the colour of low
getSeverityColorNoFallback(severity) ==
  CASE severity = "high" -> "#FF4D4F"
    [] severity = "medium" -> "#FAAD14"
    [] OTHER -> "#52C41A"

\* getSeverityColor of utils/scanner.ts
getSeverityColor(severity) ==
  CASE severity = "high" -> "#FF4D4F"
    [] severity = "medium" -> "#FAAD14"
    [] severity = "low" -> "#52C41A"
    [] OTHER -> "#1890FF"

\* getSeverityIcon: the four string literals of the source, each named by the
\* code points it holds
getSeverityIcon(severity) ==
  CASE severity = "high" -> "U+1F6D1"
    [] severity = "medium" -> "U+26A0 U+FE0F"
    [] severity = "low" -> "U+2139 U+FE0F"
    [] OTHER -> "U+2022"

\* the mutant: medium and low are exchanged
getSeverityFromStringSwapped(severity) ==
  CASE severity = "high" -> DiagnosticSeverity.Error
    [] severity = "medium" -> DiagnosticSeverity.Information
    [] severity = "low" -> DiagnosticSeverity.Warning
    [] OTHER -> DiagnosticSeverity.Hint

\* getSeverityFromString
getSeverityFromString(severity) ==
  CASE severity = "high" -> DiagnosticSeverity.Error
    [] severity = "medium" -> DiagnosticSeverity.Warning
    [] severity = "low" -> DiagnosticSeverity.Information
    [] OTHER -> DiagnosticSeverity.Hint

\* the values given for a severity: the three levels of the type Severity,
\* and values outside it
SeverityInputs == {"high", "medium", "low", "critical", "HIGH", ""}

\* how many presentations are kept
MaxPresented == 3

\* the presentation of one severity value
Presentation(severity) ==
  [severity |-> severity,
   color |-> getSeverityColor(severity),
   icon |-> getSeverityIcon(severity),
   diagnosticSeverity |-> getSeverityFromString(severity)]

\* the three functions are applied to a severity value
Present(severity) ==
  /\ Len(presented) < MaxPresented
  /\ presented' = Append(presented, Presentation(severity))
  /\ UNCHANGED <<unsafePatterns, lastIndex, scans, phase, documents,
                 activeTextEditor, diagnosticCollection, currentPanel,
                 webviewPanels, providers>>

InitSeverity == InitCatalog

NextSeverity == \E severity \in SeverityInputs : Present(severity)

SpecSeverity == InitSeverity /\ [][NextSeverity]_vars

(* ---------------------------- the extension ---------------------------- *)

\* longest text of a document
MaxDocLen == 1

\* how many calls of updateDiagnostics register code-action providers
MaxUpdates == 2

DocChars == {"a", "\n"}

DocTexts == UNION {[1..k -> DocChars] : k \in 0..MaxDocLen}

\* the texts of the catalog's own file
CatalogDocTexts == {<<"a">>, <<"a", "\n", "a">>}

\* document.languageId: the four the extension scans, and another one
LanguageIds ==
  {"javascript", "typescript", "javascriptreact", "typescriptreact",
   "plaintext"}

\* the open documents, each named by its uri
Docs == {"app", "catalog"}

\* document.fileName
FileNameOf(d) ==
  IF d = "catalog" THEN PathOf(<<"src/", "unsafe-queries", ".ts">>)
  ELSE PathOf(<<"app", ".ts">>)

\* the documents the editor can hold
DocumentSets ==
  {[d \in Docs |->
      [fileName |-> FileNameOf(d),
       languageId |-> IF d = "catalog" THEN "typescript" ELSE l,
       text |-> IF d = "catalog" THEN c ELSE t]] :
     l \in LanguageIds, t \in DocTexts, c \in CatalogDocTexts}

\* the rule list the extension scans with
ExtRules == <<LiteralRule, SpacedRule, BlankRule>>

\* a scan run from its entry to its return on the RegExp objects as li
\* describes them: the activation at the return and the lastIndex values left
RECURSIVE Run(_, _)
Run(f, li) ==
  IF f.status = "done" THEN [scan |-> f, lastIndex |-> li]
  ELSE Run(Callback(f, li).scan, Callback(f, li).lastIndex)

\* document.lineAt(line).text
lineAt(document, line) == Split(document.text)[line + 1]

\* new vscode.Range(startLine, startCharacter, endLine, endCharacter)
Range(startLine, startCharacter, endLine, endCharacter) ==
  [start |-> [line |-> startLine, character |-> startCharacter],
   end |-> [line |-> endLine, character |-> endCharacter]]

\* the diagnostic that updateDiagnostics builds of a detection
Diagnostic(document, detection) ==
  LET line == lineAt(document, detection.lineNumber - 1)
  IN  [range |-> Range(detection.lineNumber - 1, 0,
                       detection.lineNumber - 1, Len(line)),
       message |-> [icon |-> getSeverityIcon(detection.pattern.severity),
                    name |-> detection.pattern.name],
       severity |-> getSeverityFromString(detection.pattern.severity),
       code |-> [value |-> detection.pattern.id,
                 target |-> detection.pattern.docUrl],
       source |-> "SafeMongo",
       detection |-> detection]

\* the mutant: no document is taken for the pattern definition file
IsPatternsDocumentNever(document) == FALSE

\* the test of updateDiagnostics for the pattern definition file
IsPatternsDocument(document) ==
  \/ Includes(document.fileName.name, TsName)
  \/ Includes(document.fileName.name, JsName)

\* the mutant: the diagnostics are added to the published ones
updateDiagnosticsAdding(collection, uri, document, detections) ==
  IF IsPatternsDocument(document)
  THEN [collection |-> [collection EXCEPT ![uri] = <<>>], registered |-> 0]
  ELSE [collection |->
          [collection EXCEPT
             ![uri] = @ \o [k \in DOMAIN detections |->
                              Diagnostic(document, detections[k])]],
        registered |-> 2]

\* the mutant: one provider is registered for both languages
updateDiagnosticsOneProvider(collection, uri, document, detections) ==
  IF IsPatternsDocument(document)
  THEN [collection |-> [collection EXCEPT ![uri] = <<>>], registered |-> 0]
  ELSE [collection |->
          [collection EXCEPT
             ![uri] = [k \in DOMAIN detections |->
                         Diagnostic(document, detections[k])]],
        registered |-> 1]

\* updateDiagnostics(document, detections) on the diagnostic collection: the
\* collection it leaves and the number of code-action providers it registers
updateDiagnostics(collection, uri, document, detections) ==
  IF IsPatternsDocument(document)
  THEN [collection |-> [collection EXCEPT ![uri] = <<>>], registered |-> 0]
  ELSE [collection |->
          [collection EXCEPT
             ![uri] = [k \in DOMAIN detections |->
                         Diagnostic(document, detections[k])]],
        registered |-> 2]

\* the mutant: only the two TypeScript languages are scanned
IsScannedLanguageTsOnly(languageId) ==
  languageId \in {"typescript", "typescriptreact"}

\* the languageId test of scanCurrentFile
IsScannedLanguage(languageId) ==
  ~ /\ languageId # "javascript"
    /\ languageId # "typescript"
    /\ languageId # "javascriptreact"
    /\ languageId # "typescriptreact"

\* the outcome of a handler that does nothing to the diagnostics
Untouched(collection, li) ==
  [collection |-> collection, lastIndex |-> li, registered |-> 0]

\* scanCurrentFile(editor), editor showing the document of that uri: the
\* collection and the lastIndex values it leaves, and the number of providers
\* it registers
scanCurrentFile(collection, li, uri, document) ==
  IF ~IsScannedLanguage(document.languageId) THEN Untouched(collection, li)
  ELSE LET run == Run(Enter(document.text, unsafePatterns, document.fileName),
                      li)
           u == updateDiagnostics(collection, uri, document,
                                  run.scan.detections)
       IN  [collection |-> u.collection, lastIndex |-> run.lastIndex,
            registered |-> u.registered]

\* the most providers a behaviour registers: the one of activate and the two
\* of each counted call of updateDiagnostics
ProviderCap == 1 + 2 * MaxUpdates

\* the mutant: the handler reads the document as it was before the change
EventDocumentStale(before, after) == before

\* editor.document in the handler of onDidChangeTextDocument: the document as
\* the change left it
EventDocument(before, after) == after

\* the outcome of the handlers that call scanCurrentFile when there is an
\* editor
ScanOutcome(editor, docs) ==
  IF editor = NoEditor THEN Untouched(diagnosticCollection, lastIndex)
  ELSE scanCurrentFile(diagnosticCollection, lastIndex, editor, docs[editor])

\* the outcome r of a handler takes effect, base providers being registered
Publish(r, base) ==
  /\ base + r.registered <= ProviderCap
  /\ diagnosticCollection' = r.collection
  /\ lastIndex' = r.lastIndex
  /\ providers' = base + r.registered

\* the most webview panels a behaviour creates
MaxPanels == 2

\* a webview panel that createWebviewPanel has just made: it is not disposed,
\* and the user has not closed it
NewWebviewPanel == [isDisposed |-> FALSE, closing |-> FALSE]

\* the listener that showVulnerabilityDetails gives to onDidDispose
onDidDispose(cur) == NoPanel

\* panel.dispose() for the panel of that handle, cur being currentPanel: the
\* panel is disposed and its onDidDispose listener runs before dispose
\* returns.  A panel that is disposed already is left alone, and its listener
\* does not run again.
dispose(panels, cur, handle) ==
  IF panels[handle].isDisposed
  THEN [webviewPanels |-> panels, currentPanel |-> cur]
  ELSE [webviewPanels |-> [panels EXCEPT ![handle].isDisposed = TRUE],
        currentPanel |-> onDidDispose(cur)]

\* the mutant: the panel that is open is not disposed
disposeCurrentPanelSkipped(panels, cur) ==
  [webviewPanels |-> panels, currentPanel |-> cur]

\* if (currentPanel) { currentPanel.dispose(); }
disposeCurrentPanel(panels, cur) ==
  IF cur # NoPanel THEN dispose(panels, cur, cur.handle)
  ELSE [webviewPanels |-> panels, currentPanel |-> cur]

\* the mutant: the diagnostics stay in the collection
clearNothing(collection) == collection

\* diagnosticCollection.clear()
clear(collection) == [d \in DOMAIN collection |-> <<>>]

\* the webview panel that showVulnerabilityDetails creates, and its handle
Panel(handle, detection) ==
  [handle |-> handle,
   title |-> detection.pattern.name,
   html |-> [severityColor |-> getSeverityColor(detection.pattern.severity),
             name |-> detection.pattern.name,
             severity |-> detection.pattern.severity,
             matchedText |-> detection.matchedText,
             docUrl |-> detection.pattern.docUrl]]

\* the detections attached to the published diagnostics
PublishedDetections ==
  UNION {{diagnosticCollection[d][k].detection :
            k \in DOMAIN diagnosticCollection[d]} : d \in Docs}

InitExt ==
  /\ unsafePatterns = ExtRules
  /\ lastIndex = [id \in RuleIds |-> 0]
  /\ scans = [c \in Callers |-> Idle]
  /\ phase = "inactive"
  /\ documents \in DocumentSets
  /\ activeTextEditor \in Docs \cup {NoEditor}
  /\ diagnosticCollection = [d \in Docs |-> <<>>]
  /\ currentPanel = NoPanel
  /\ webviewPanels = <<>>
  /\ providers = 0
  /\ presented = <<>>

\* activate(context)
Activate ==
  /\ phase = "inactive"
  /\ phase' = "active"
  /\ Publish(ScanOutcome(activeTextEditor, documents), 1)
  /\ UNCHANGED <<unsafePatterns, scans, documents, activeTextEditor,
                 currentPanel, webviewPanels, presented>>

\* the command safemongo.checkCurrentFile
CheckCurrentFile ==
  /\ phase = "active"
  /\ Publish(ScanOutcome(activeTextEditor, documents), providers)
  /\ UNCHANGED <<unsafePatterns, scans, phase, documents, activeTextEditor,
                 currentPanel, webviewPanels, presented>>

\* the mutant: every change is taken for one of the editor's document
IsEditorDocumentAny(editor, d) == editor # NoEditor

\* editor && event.document === editor.document, d being the document of the
\* event
IsEditorDocument(editor, d) == editor # NoEditor /\ d = editor

\* the text of document d becomes text, and the handler of
\* onDidChangeTextDocument runs
ChangeTextDocument(d, text) ==
  /\ phase = "active"
  /\ text # documents[d].text
  /\ documents' = [documents EXCEPT ![d].text = text]
  /\ Publish(IF IsEditorDocument(activeTextEditor, d)
             THEN scanCurrentFile(diagnosticCollection, lastIndex, d,
                                  EventDocument(documents[d], documents'[d]))
             ELSE Untouched(diagnosticCollection, lastIndex),
             providers)
  /\ UNCHANGED <<unsafePatterns, scans, phase, activeTextEditor,
                 currentPanel, webviewPanels, presented>>

\* another editor, or none, becomes the active one, and the handler of
\* onDidChangeActiveTextEditor runs
ChangeActiveTextEditor(editor) ==
  /\ phase = "active"
  /\ editor # activeTextEditor
  /\ activeTextEditor' = editor
  /\ Publish(ScanOutcome(editor, documents), providers)
  /\ UNCHANGED <<unsafePatterns, scans, phase, documents, currentPanel,
                 webviewPanels, presented>>

\* the language mode of document d is changed; the extension has no handler
\* for it
ChangeLanguage(d, languageId) ==
  /\ phase = "active"
  /\ languageId # documents[d].languageId
  /\ documents' = [documents EXCEPT ![d].languageId = languageId]
  /\ UNCHANGED <<unsafePatterns, lastIndex, scans, phase, activeTextEditor,
                 diagnosticCollection, currentPanel, webviewPanels,
                 providers, presented>>

\* the command safemongo.showVulnerabilityDetails: the panel that is open is
\* disposed, its listener clears currentPanel, and the new panel is created
ShowVulnerabilityDetails(detection) ==
  /\ phase = "active"
  /\ Len(webviewPanels) < MaxPanels
  /\ LET d == disposeCurrentPanel(webviewPanels, currentPanel)
     IN  /\ webviewPanels' = Append(d.webviewPanels, NewWebviewPanel)
         /\ currentPanel' = Panel(Len(webviewPanels) + 1, detection)
  /\ UNCHANGED <<unsafePatterns, lastIndex, scans, phase, documents,
                 activeTextEditor, diagnosticCollection, providers,
                 presented>>

\* the user closes the panel of that handle; the extension host has yet to
\* hear of it
ClosePanel(handle) ==
  /\ ~webviewPanels[handle].isDisposed
  /\ ~webviewPanels[handle].closing
  /\ webviewPanels' = [webviewPanels EXCEPT ![handle].closing = TRUE]
  /\ UNCHANGED <<unsafePatterns, lastIndex, scans, phase, documents,
                 activeTextEditor, diagnosticCollection, currentPanel,
                 providers, presented>>

\* the extension host hears that the user closed the panel of that handle: the
\* panel is disposed, and its onDidDispose listener runs unless the panel has
\* been disposed since
DidDispose(handle) ==
  /\ webviewPanels[handle].closing
  /\ LET d == dispose(webviewPanels, currentPanel, handle)
     IN  /\ webviewPanels' = [d.webviewPanels EXCEPT ![handle].closing = FALSE]
         /\ currentPanel' = d.currentPanel
  /\ UNCHANGED <<unsafePatterns, lastIndex, scans, phase, documents,
                 activeTextEditor, diagnosticCollection, providers,
                 presented>>

\* deactivate(), and the disposal of context.subscriptions that goes with
\* it: the provider that activate registered is among them, the providers
\* that updateDiagnostics registered are not
Deactivate ==
  /\ phase = "active"
  /\ phase' = "deactivated"
  /\ LET d == disposeCurrentPanel(webviewPanels, currentPanel)
     IN  /\ webviewPanels' = d.webviewPanels
         /\ currentPanel' = d.currentPanel
  /\ diagnosticCollection' = clear(diagnosticCollection)
  /\ providers' = providers - 1
  /\ UNCHANGED <<unsafePatterns, lastIndex, scans, documents,
                 activeTextEditor, presented>>

NextExt ==
  \/ Activate
  \/ CheckCurrentFile
  \/ \E text \in DocTexts : ChangeTextDocument("app", text)
  \/ \E text \in CatalogDocTexts : ChangeTextDocument("catalog", text)
  \/ \E editor \in Docs \cup {NoEditor} : ChangeActiveTextEditor(editor)
  \/ \E languageId \in LanguageIds : ChangeLanguage("app", languageId)
  \/ Deactivate

SpecExt == InitExt /\ [][NextExt]_vars

(* ------------------- the detail view and its panels -------------------- *)

\* the most diagnostics in the context of a code-action request
MaxDiagnostics == 2

\* the code action that provideCodeActions makes of a detection
CodeAction(detection) ==
  [title |-> "Show details about this MongoDB security issue",
   kind |-> "quickfix",
   command |-> [command |-> "safemongo.showVulnerabilityDetails",
                title |-> "Show Vulnerability Details",
                arguments |-> <<detection>>]]

\* (diagnostic as any).detection is not undefined
HasDetection(diagnostic) == "detection" \in DOMAIN diagnostic

\* the mutant: the source of a diagnostic is not looked at
IsSafeMongoAny(diagnostic) == TRUE

\* diagnostic.source is "SafeMongo"
IsSafeMongo(diagnostic) == diagnostic.source = "SafeMongo"

\* provideCodeActions(document, range, context), given context.diagnostics:
\* the actions pushed for its diagnostics, in their order
RECURSIVE provideCodeActions(_)
provideCodeActions(diagnostics) ==
  IF diagnostics = <<>> THEN <<>>
  ELSE LET diagnostic == Head(diagnostics)
           rest == provideCodeActions(Tail(diagnostics))
       IN  IF ~IsSafeMongo(diagnostic) THEN rest
           ELSE IF ~HasDetection(diagnostic) THEN rest
           ELSE <<CodeAction(diagnostic.detection)>> \o rest

\* diagnostics that updateDiagnostics did not make: of another extension,
\* with and without a detection property, and one that names SafeMongo as its
\* source and has no detection
ForeignDiagnostics ==
  { [range |-> Range(0, 0, 0, 1), source |-> "eslint"],
    [range |-> Range(0, 0, 0, 1), source |-> "eslint",
     detection |-> [pattern |-> LiteralRule, lineNumber |-> 1,
                    matchedText |-> <<"a">>]],
    [range |-> Range(0, 0, 0, 1), source |-> "SafeMongo"] }

\* the diagnostics of document d that an editor can put in a context
DiagnosticsOf(d) ==
  {diagnosticCollection[d][k] : k \in DOMAIN diagnosticCollection[d]}
    \cup ForeignDiagnostics

\* context.diagnostics of the code-action requests for document d
Contexts(d) ==
  UNION {[1..n -> DiagnosticsOf(d)] : n \in 0..MaxDiagnostics}

\* the user picks an action that provideCodeActions returned for document d,
\* and its command runs with its arguments
PickCodeAction(d) ==
  \E context \in Contexts(d) :
    \E k \in DOMAIN provideCodeActions(context) :
      LET command == provideCodeActions(context)[k].command
      IN  /\ command.command = "safemongo.showVulnerabilityDetails"
          /\ ShowVulnerabilityDetails(command.arguments[1])

\* the documents of the behaviours with detail views: the active editor
\* shows a TypeScript document
InitPanels ==
  /\ InitExt
  /\ activeTextEditor = "app"
  /\ documents["app"].languageId = "typescript"

NextPanels ==
  \/ Activate
  \/ CheckCurrentFile
  \/ \E text \in DocTexts : ChangeTextDocument("app", text)
  \/ \E d \in Docs : PickCodeAction(d)
  \/ \E handle \in DOMAIN webviewPanels : ClosePanel(handle)
  \/ \E handle \in DOMAIN webviewPanels : DidDispose(handle)
  \/ Deactivate

SpecPanels == InitPanels /\ [][NextPanels]_vars

(* ------------------- what the claims speak about ----------------------- *)

\* the activation of the single caller of Spec
S == scans["c1"]

Min(set) == CHOOSE x \in set : \A y \in set : x <= y

Max(set) == CHOOSE x \in set : \A y \in set : x >= y

\* the number of pieces that splitting on newline gives
NumberOfLines(content) ==
  1 + Cardinality({k \in 1..Len(content) : content[k] = "\n"})

\* the n-th line of a text: the characters with n - 1 newlines before them
LineAt(content, n) ==
  LET at == {k \in 1..Len(content) :
               /\ content[k] # "\n"
               /\ Cardinality({m \in 1..(k - 1) : content[m] = "\n"}) = n - 1}
  IN  IF at = {} THEN <<>> ELSE SubSeq(content, Min(at), Max(at))

\* m is line with its leading and trailing white space removed
IsTrimOf(m, line) ==
  \E i \in 0..Len(line) : \E j \in i..Len(line) :
    /\ m = SubSeq(line, i + 1, j)
    /\ \A k \in 1..i : IsWhiteSpace(line[k])
    /\ \A k \in (j + 1)..Len(line) : IsWhiteSpace(line[k])
    /\ m # <<>> => ~IsWhiteSpace(m[1]) /\ ~IsWhiteSpace(m[Len(m)])

\* what each matcher means: it matches somewhere within the text s
MatchesWithin(rule, s) ==
  CASE rule.id = "LITERAL" -> \E k \in 1..Len(s) : s[k] = "a"
    [] rule.id = "SPACED" ->
         \E k \in 1..Len(s) : \E m \in (k + 1)..Len(s) :
           /\ s[k] = "a"
           /\ s[m] = "a"
           /\ \A n \in (k + 1)..(m - 1) : IsWhiteSpace(s[n])
    [] rule.id = "BLANK" -> \A k \in 1..Len(s) : IsWhiteSpace(s[k])

\* the position of a rule in a rule list
RuleIndex(patterns, rule) == CHOOSE k \in DOMAIN patterns : patterns[k] = rule

\* the name ends with the catalog's module name in one of its build forms
EndsWith(name, suffix) ==
  /\ Len(name) >= Len(suffix)
  /\ SubSeq(name, Len(name) - Len(suffix) + 1, Len(name)) = suffix

NamesCatalogFile(filePath) ==
  /\ filePath.given
  /\ (EndsWith(filePath.name, TsName) \/ EndsWith(filePath.name, JsName))

\* the detections of f for line number n and the given rule
DetectionsAt(f, n, rule) ==
  {k \in DOMAIN f.detections :
     f.detections[k].lineNumber = n /\ f.detections[k].pattern = rule}

\* some line of the text matches some rule of the list
SomeLineMatches(f) ==
  \E n \in 1..NumberOfLines(f.content) : \E k \in DOMAIN f.patterns :
    MatchesWithin(f.patterns[k], LineAt(f.content, n))

(* ------------------------------ C1 ------------------------------------- *)

\* C1: the returned sequence is ordered by line number ascending and, among
\* detections of one line, by the position of the rule in the rule list: of
\* two detections the earlier has the smaller line number, or the same line
\* number and a rule strictly earlier in the list.
C1_Ordered ==
  S.status = "done" =>
    \A a, b \in DOMAIN S.detections :
      a < b =>
        \/ S.detections[a].lineNumber < S.detections[b].lineNumber
        \/ /\ S.detections[a].lineNumber = S.detections[b].lineNumber
           /\ RuleIndex(S.patterns, S.detections[a].pattern)
                < RuleIndex(S.patterns, S.detections[b].pattern)

\* a scan returned two detections of one line and one of a later line
C1_Witness ==
  /\ S.status = "done"
  /\ \E a, b, c \in DOMAIN S.detections :
       /\ a < b /\ b < c
       /\ S.detections[a].lineNumber = S.detections[b].lineNumber
       /\ S.detections[b].lineNumber < S.detections[c].lineNumber

(* ------------------------------ C2 ------------------------------------- *)

\* C2: every returned detection has a line number between 1 and the number
\* of lines of the text, and its matchedText is that line of the text with
\* leading and trailing white space removed.
C2_LineFidelity ==
  S.status = "done" =>
    \A k \in DOMAIN S.detections :
      /\ S.detections[k].lineNumber \in 1..NumberOfLines(S.content)
      /\ IsTrimOf(S.detections[k].matchedText,
                  LineAt(S.content, S.detections[k].lineNumber))

\* a detection on a later line whose text had white space on both sides
C2_Witness ==
  /\ S.status = "done"
  /\ \E k \in DOMAIN S.detections :
       /\ S.detections[k].lineNumber > 1
       /\ S.detections[k].matchedText
            # LineAt(S.content, S.detections[k].lineNumber)
       /\ S.detections[k].matchedText # <<>>

(* ------------------------------ C3 ------------------------------------- *)

\* C3: self-exclusion: when filePath ends with unsafe-queries.ts or
\* unsafe-queries.js the scan returns the empty sequence, whatever the text
\* and the rule list, also when every line matches some rule.
C3_SelfExclusion ==
  S.status = "done" /\ NamesCatalogFile(S.filePath) => S.detections = <<>>

\* a scan of the catalog file returned, every line of the text matching
C3_Witness ==
  /\ S.status = "done"
  /\ NamesCatalogFile(S.filePath)
  /\ S.content # <<>>
  /\ \A n \in 1..NumberOfLines(S.content) : \E k \in DOMAIN S.patterns :
       MatchesWithin(S.patterns[k], LineAt(S.content, n))

(* ------------------------------ C4 ------------------------------------- *)

\* C4: detections are suppressed if and only if filePath is given and ends
\* with unsafe-queries.ts or unsafe-queries.js; for every other filePath
\* (absent, empty, any other string) every line that matches a rule yields
\* a detection.
C4_SuppressedIffSuffix ==
  S.status = "done" =>
    /\ NamesCatalogFile(S.filePath) => S.detections = <<>>
    /\ ~NamesCatalogFile(S.filePath) =>
         \A n \in 1..NumberOfLines(S.content) : \A k \in DOMAIN S.patterns :
           MatchesWithin(S.patterns[k], LineAt(S.content, n))
             => DetectionsAt(S, n, S.patterns[k]) # {}

(* ------------------------------ C5 ------------------------------------- *)

\* C5: a scan that is not suppressed returns exactly one detection for each
\* pair of a line and a rule whose matcher matches within the line, and none
\* for another pair; the detection carries the rule of the list itself; so
\* no two detections share line number and rule, and there are at most
\* (number of lines) x (number of rules) of them.
C5_ExactlyTheMatches ==
  S.status = "done" /\ ~IsPatternsFile(S.filePath) =>
    /\ \A n \in 1..NumberOfLines(S.content) : \A k \in DOMAIN S.patterns :
         Cardinality(DetectionsAt(S, n, S.patterns[k]))
           = IF MatchesWithin(S.patterns[k], LineAt(S.content, n))
             THEN 1 ELSE 0
    /\ \A d \in DOMAIN S.detections :
         /\ S.detections[d].lineNumber \in 1..NumberOfLines(S.content)
         /\ \E k \in DOMAIN S.patterns : S.patterns[k] = S.detections[d].pattern
    /\ \A d, e \in DOMAIN S.detections :
         /\ S.detections[d].lineNumber = S.detections[e].lineNumber
         /\ S.detections[d].pattern.id = S.detections[e].pattern.id
         => d = e
    /\ Len(S.detections) <= NumberOfLines(S.content) * Len(S.patterns)

\* one line with several detections, one rule with detections on several
\* lines, and a pair of a line and a rule without a detection
C5_Witness ==
  /\ S.status = "done"
  /\ ~IsPatternsFile(S.filePath)
  /\ \E d, e \in DOMAIN S.detections :
       /\ S.detections[d].lineNumber = S.detections[e].lineNumber
       /\ S.detections[d].pattern # S.detections[e].pattern
  /\ \E d, e \in DOMAIN S.detections :
       /\ S.detections[d].lineNumber # S.detections[e].lineNumber
       /\ S.detections[d].pattern = S.detections[e].pattern
  /\ Len(S.detections) < NumberOfLines(S.content) * Len(S.patterns)

(* ------------------------------ C7 ------------------------------------- *)

\* C7: for every rule list, the scan of the empty text returns the empty
\* sequence.
C7_EmptyTextNoDetections ==
  S.status = "done" /\ S.content = <<>> => S.detections = <<>>

(* ------------------------------ C6 ------------------------------------- *)

SameArguments(f, g) ==
  /\ f.content = g.content
  /\ f.patterns = g.patterns
  /\ f.filePath = g.filePath

\* C6: determinism and history independence: two scans with the same
\* arguments return identical sequences, however many other scans ran in
\* between, and no scan leaves anything behind for a later one: the only
\* objects that outlive a call, the rules' RegExp objects, are never moved.
C6_Deterministic ==
  /\ \A c, d \in Callers :
       /\ scans[c].status = "done"
       /\ scans[d].status = "done"
       /\ SameArguments(scans[c], scans[d])
       => scans[c].detections = scans[d].detections
  /\ \A id \in RuleIds : lastIndex[id] = 0

\* two callers hold the result of scans with the same arguments, the text
\* of several lines and with detections
C6_Witness ==
  /\ scans["c1"].status = "done"
  /\ scans["c2"].status = "done"
  /\ SameArguments(scans["c1"], scans["c2"])
  /\ Len(scans["c1"].detections) >= 2
  /\ NumberOfLines(scans["c1"].content) >= 2

(* ------------------------------ C8 ------------------------------------- *)

\* the lines a scan iterates over: none when it is self-excluded
LinesVisited(f) ==
  IF IsPatternsFile(f.filePath) THEN 0 ELSE NumberOfLines(f.content)

VisitedEachPairOnce(f) ==
  /\ Len(f.visited) = LinesVisited(f) * Len(f.patterns)
  /\ \A i \in 0..(LinesVisited(f) - 1) : \A k \in DOMAIN f.patterns :
       Cardinality({v \in DOMAIN f.visited : f.visited[v] = <<i, k>>}) = 1

\* the callbacks a scan has still to run
Remaining(f) == LinesVisited(f) * Len(f.patterns) - Len(f.visited)

\* C8: the scan has no error outcome: for every text, rule list and
\* filePath its only outcomes are the states of a normal run; a scan that
\* was entered always has a line and a rule for its next callback, every
\* callback leaves one callback fewer to run, and the scan returns having
\* run the callback once for each pair of a line it iterates over and a
\* rule.
C8_NoErrorOutcome ==
  /\ [](/\ S.status \in {"idle", "running", "done"}
        /\ S.status = "done" => VisitedEachPairOnce(S)
        /\ S.status = "running" =>
             /\ Remaining(S) > 0
             /\ S.index + 1 \in DOMAIN S.lines
             /\ S.p \in DOMAIN S.patterns)
  /\ [][S.status = "running" =>
          /\ S'.status \in {"running", "done"}
          /\ Remaining(S') = Remaining(S) - 1]_vars

\* a scan of a text that ends in a newline returned after four callbacks
\* or more
C8_Witness ==
  /\ S.status = "done"
  /\ S.content # <<>>
  /\ S.content[Len(S.content)] = "\n"
  /\ Len(S.visited) >= 4

(* ------------------------------ C9 ------------------------------------- *)

\* the detections of f for line number n, in order
FindingsAt(f, n) ==
  LET AtLine(d) == d.lineNumber = n IN SelectSeq(f.detections, AtLine)

\* C9: line locality: two scans with the same rule list and filePath whose
\* texts have the same line n return the same detections for line n; and a
\* rule that no single line of the text matches yields no detection, also
\* when it matches across a newline.
C9_LineLocal ==
  /\ \A c, d \in Callers :
       /\ scans[c].status = "done"
       /\ scans[d].status = "done"
       /\ scans[c].patterns = scans[d].patterns
       /\ scans[c].filePath = scans[d].filePath
       => \A n \in 1..NumberOfLines(scans[c].content) :
            /\ n <= NumberOfLines(scans[d].content)
            /\ LineAt(scans[c].content, n) = LineAt(scans[d].content, n)
            => FindingsAt(scans[c], n) = FindingsAt(scans[d], n)
  /\ \A c \in Callers :
       scans[c].status = "done" =>
         \A k \in DOMAIN scans[c].patterns :
           (\A n \in 1..NumberOfLines(scans[c].content) :
              ~MatchesWithin(scans[c].patterns[k], LineAt(scans[c].content, n)))
           => \A d \in DOMAIN scans[c].detections :
                scans[c].detections[d].pattern # scans[c].patterns[k]

\* one caller holds the result for a text in which SPACED matches only
\* across a newline, the other the result for another text with the same
\* first line, which has a detection
C9_Witness ==
  /\ scans["c1"].status = "done"
  /\ scans["c2"].status = "done"
  /\ ~IsPatternsFile(scans["c1"].filePath)
  /\ scans["c1"].filePath = scans["c2"].filePath
  /\ \E k \in DOMAIN scans["c1"].patterns : scans["c1"].patterns[k] = SpacedRule
  /\ MatchesWithin(SpacedRule, scans["c1"].content)
  /\ \A n \in 1..NumberOfLines(scans["c1"].content) :
       ~MatchesWithin(SpacedRule, LineAt(scans["c1"].content, n))
  /\ scans["c1"].content # scans["c2"].content
  /\ LineAt(scans["c1"].content, 1) = LineAt(scans["c2"].content, 1)
  /\ FindingsAt(scans["c2"], 1) # <<>>

(* ------------------------------ C10 ------------------------------------ *)

\* C10: interleaved scans do not interfere: whatever the interleaving of
\* the callbacks of the callers' scans, each scan returns the sequence it
\* returns when it runs alone.
C10_NoInterference ==
  \A c \in Callers :
    scans[c].status = "done" =>
      scans[c].detections
        = ScanAlone(scans[c].content, scans[c].patterns, scans[c].filePath)

\* one scan has returned detections while the other one, of another text,
\* is in the middle of its loops with detections of its own
C10_Witness ==
  /\ scans["c1"].status = "done"
  /\ Len(scans["c1"].detections) >= 2
  /\ scans["c2"].status = "running"
  /\ scans["c2"].content # scans["c1"].content
  /\ scans["c2"].detections # <<>>
  /\ scans["c2"].index >= 1

(* ------------------------------ C26 ------------------------------------ *)

\* C26: the scan with the parameter filePath returns what the scan defined
\* without it returns for the same text and rules, whenever filePath is
\* absent, empty or does not name the catalog file; the two differ only for a
\* filePath that names the catalog file, and there the scan with filePath
\* returns the empty sequence.
C26_RefinesTwoArgs ==
  S.status = "done" =>
    LET two == scanForUnsafePatternsTwoArgs(S.content, S.patterns)
    IN  /\ ~NamesCatalogFile(S.filePath) => S.detections = two
        /\ S.detections # two =>
             NamesCatalogFile(S.filePath) /\ S.detections = <<>>

(* ------------------------- the catalog's claims ------------------------ *)

\* the findings of rule id among the detections of activation f
FindingsOf(f, id) ==
  {k \in DOMAIN f.detections : f.detections[k].pattern.id = id}

\* the text of activation f is the single line
ScannedAlone(f, line) ==
  f.status = "done" /\ f.content = line /\ ~IsPatternsFile(f.filePath)

\* C12: in the rule catalog unsafePatterns every rule id is non-empty and no
\* two rules have the same id.
C12_IdsUnique ==
  \A i, j \in DOMAIN unsafePatterns :
    /\ unsafePatterns[i].id # ""
    /\ i # j => unsafePatterns[i].id # unsafePatterns[j].id

\* a scan with the whole catalog has returned
C12_Witness ==
  /\ unsafePatterns = Catalog
  /\ Cardinality(CatalogIds) = Len(Catalog)
  /\ S.status = "done"
  /\ Len(S.patterns) > 1

\* C18: the scan of the single line with $where yields a finding of
\* NOSQL_INJECTION_OBJECT, severity high, and the scan of the single line
\* db.users.find({}); yields a finding of UNCONSTRAINED_QUERY, severity
\* medium.
C18_ExamplesFound ==
  /\ ScannedAlone(S, WhereExample) =>
       \E k \in FindingsOf(S, "NOSQL_INJECTION_OBJECT") :
         /\ S.detections[k].pattern.severity = "high"
         /\ S.detections[k].lineNumber = 1
  /\ ScannedAlone(S, UnconstrainedExample) =>
       \E k \in FindingsOf(S, "UNCONSTRAINED_QUERY") :
         /\ S.detections[k].pattern.severity = "medium"
         /\ S.detections[k].lineNumber = 1

\* the scan of the line with $where has returned its findings
C18_Witness ==
  /\ ScannedAlone(S, WhereExample)
  /\ FindingsOf(S, "NOSQL_INJECTION_OBJECT") # {}
  /\ S.detections[1].matchedText = WhereExample

\* the rules whose id or name contains "injection", in either letter case
InjectionRules ==
  {FUNCTION_PARAMETER_INJECTION, TEMPLATE_STRING_INJECTION,
   ARRAY_FILTER_INJECTION, BULK_OPERATION_INJECTION, NOSQL_INJECTION_OBJECT,
   NOSQL_INJECTION_REGEX, NOSQL_INJECTION_STRING, PROJECTION_INJECTION,
   SORT_INJECTION, OBJECT_SPREAD_INJECTION}

\* C19: the scan of the single line
\* db.users.find({ active: true, role: "user" }); yields no finding of
\* UNCONSTRAINED_QUERY and no finding of an injection rule.
C19_SafeExampleClean ==
  ScannedAlone(S, UnconstrainedSafeExample) =>
    \A k \in DOMAIN S.detections :
      /\ S.detections[k].pattern.id # "UNCONSTRAINED_QUERY"
      /\ S.detections[k].pattern \notin InjectionRules

(* ------------------- severity presentation: the claims ----------------- *)

\* the three levels of the type Severity
Levels == {"high", "medium", "low"}

\* C13: getSeverityColor and getSeverityIcon map each of high, medium and
\* low to its own fixed value, different from the other two, and every other
\* input to one fixed fallback value different from the three.
C13_PresentationTotal ==
  \A j, k \in DOMAIN presented :
    LET a == presented[j]
        b == presented[k]
    IN  /\ a.severity = b.severity => a.color = b.color /\ a.icon = b.icon
        /\ a.severity \notin Levels /\ b.severity \notin Levels =>
             a.color = b.color /\ a.icon = b.icon
        /\ a.severity # b.severity
             /\ (a.severity \in Levels \/ b.severity \in Levels) =>
             a.color # b.color /\ a.icon # b.icon

\* a level, a value outside the levels twice, and another value outside
C13_Witness ==
  /\ Len(presented) = MaxPresented
  /\ \E i, j, k \in DOMAIN presented :
       /\ presented[i].severity \in Levels
       /\ presented[j].severity \notin Levels
       /\ presented[k].severity \notin Levels
       /\ presented[j].severity # presented[k].severity

\* the risk order high > medium > low
Risk == [high |-> 3, medium |-> 2, low |-> 1]

\* C14: high gives Error, medium gives Warning, low gives Information and
\* any other value gives Hint; a higher severity never gets a weaker
\* treatment than a lower one.
C14_TreatmentBySeverity ==
  /\ \A k \in DOMAIN presented :
       presented[k].diagnosticSeverity =
         CASE presented[k].severity = "high" -> DiagnosticSeverity.Error
           [] presented[k].severity = "medium" -> DiagnosticSeverity.Warning
           [] presented[k].severity = "low" -> DiagnosticSeverity.Information
           [] OTHER -> DiagnosticSeverity.Hint
  /\ \A j, k \in DOMAIN presented :
       /\ presented[j].severity \in Levels
       /\ presented[k].severity \in Levels
       /\ Risk[presented[j].severity] > Risk[presented[k].severity]
       => presented[j].diagnosticSeverity < presented[k].diagnosticSeverity

\* the three levels have been treated
C14_Witness ==
  /\ Len(presented) = MaxPresented
  /\ {presented[k].severity : k \in DOMAIN presented} = Levels

(* ------------------------ the extension's claims ----------------------- *)

\* the scan of the document's text has been published: one diagnostic for
\* each detection, in the order of the detections
Shows(published, document) ==
  LET findings == ScanAlone(document.text, unsafePatterns, document.fileName)
  IN  /\ Len(published) = Len(findings)
      /\ \A k \in DOMAIN findings : published[k].detection = findings[k]

\* the step is one of a handler that calls scanCurrentFile with an editor
ScanRequested ==
  /\ activeTextEditor' # NoEditor
  /\ \/ Activate
     \/ CheckCurrentFile
     \/ \E text \in DocTexts \cup CatalogDocTexts :
          activeTextEditor # NoEditor
            /\ ChangeTextDocument(activeTextEditor, text)
     \/ \E editor \in Docs : ChangeActiveTextEditor(editor)

\* the step is one of a handler whose call of updateDiagnostics registered
\* its two providers: the call was for a document that is not the catalog
\* file
UpdateCounted ==
  providers' = (IF phase = "inactive" THEN 1 ELSE providers) + 2

\* C11: no step changes the rule list unsafePatterns, nor the state of the
\* RegExp object of a rule.
C11_CatalogUnchanged ==
  [][unsafePatterns' = unsafePatterns /\ lastIndex' = lastIndex]_vars

\* scans and diagnostics updates have taken place
C11_Witness ==
  /\ phase = "active"
  /\ providers = ProviderCap
  /\ diagnosticCollection["app"] # <<>>
  /\ unsafePatterns = ExtRules

\* C15: a call of updateDiagnostics for a document that is not the catalog
\* file leaves exactly one diagnostic for each finding, in the order of the
\* findings, in place of what was published; each spans the whole line
\* lineNumber - 1, a line of the document, and carries the id and the docUrl
\* of the rule.
C15_DiagnosticsOfFindings ==
  [][UpdateCounted =>
       LET uri == activeTextEditor'
           document == documents'[uri]
           findings == ScanAlone(document.text, unsafePatterns,
                                 document.fileName)
           published == diagnosticCollection'[uri]
       IN  /\ Len(published) = Len(findings)
           /\ \A k \in DOMAIN findings :
                LET n == findings[k].lineNumber
                IN  /\ n - 1 \in 0..(NumberOfLines(document.text) - 1)
                    /\ published[k].detection = findings[k]
                    /\ published[k].range.start =
                         [line |-> n - 1, character |-> 0]
                    /\ published[k].range.end =
                         [line |-> n - 1,
                          character |-> Len(LineAt(document.text, n))]
                    /\ published[k].code.value = findings[k].pattern.id
                    /\ published[k].code.target = findings[k].pattern.docUrl
  ]_vars

\* the second counted call has published findings of two lines
C15_Witness ==
  /\ providers = ProviderCap
  /\ activeTextEditor = "app"
  /\ Len(diagnosticCollection["app"]) >= 2
  /\ \E k \in DOMAIN diagnosticCollection["app"] :
       diagnosticCollection["app"][k].range.start.line = 1
  /\ Shows(diagnosticCollection["app"], documents["app"])

\* C16: when the text of the active editor's document changes, the document
\* being of a scanned language and not the catalog file, the handler leaves
\* the diagnostics of the text as it is now.
C16_DiagnosticsOfCurrentText ==
  [][/\ activeTextEditor = "app"
     /\ documents'["app"].text # documents["app"].text
     /\ IsScannedLanguage(documents["app"].languageId)
     => Shows(diagnosticCollection'["app"], documents'["app"])]_vars

\* the diagnostics of the active document are those of its text, after two
\* publications
C16_Witness ==
  /\ phase = "active"
  /\ activeTextEditor = "app"
  /\ IsScannedLanguage(documents["app"].languageId)
  /\ providers = ProviderCap
  /\ Len(documents["app"].text) = MaxDocLen
  /\ diagnosticCollection["app"] # <<>>
  /\ Shows(diagnosticCollection["app"], documents["app"])
  /\ currentPanel = NoPanel

\* C17: scanCurrentFile publishes the scan of a document whose languageId is
\* javascript, typescript, javascriptreact or typescriptreact; for any other
\* languageId it scans nothing and leaves the whole collection as it was.
C17_ScannedLanguages ==
  [][ScanRequested =>
       LET uri == activeTextEditor'
           document == documents'[uri]
       IN  IF document.languageId \in
                {"javascript", "typescript", "javascriptreact",
                 "typescriptreact"}
           THEN Shows(diagnosticCollection'[uri], document)
           ELSE /\ diagnosticCollection' = diagnosticCollection
                /\ lastIndex' = lastIndex
                /\ providers' = IF phase = "inactive" THEN 1 ELSE providers
  ]_vars

\* a document of another language keeps the diagnostics published for it,
\* which are no longer those of its text
C17_Witness ==
  /\ phase = "active"
  /\ activeTextEditor = "app"
  /\ documents["app"].languageId = "plaintext"
  /\ diagnosticCollection["app"] # <<>>
  /\ ~Shows(diagnosticCollection["app"], documents["app"])

\* the findings lists and the published lists that updateDiagnostics can be
\* given: none, and those of the other documents
GivenLists == {<<>>} \cup {diagnosticCollection[d] : d \in Docs}

\* C20: every scan of the catalog's own file leaves the empty diagnostic
\* list for it, whatever findings are passed to updateDiagnostics and
\* whatever was published before.
C20_CatalogFileEmpty ==
  [][/\ ScanRequested /\ activeTextEditor' = "catalog" =>
          diagnosticCollection'["catalog"] = <<>>
     /\ \A before, given \in GivenLists :
          updateDiagnostics(
            [diagnosticCollection EXCEPT !["catalog"] = before], "catalog",
            documents'["catalog"],
            [k \in DOMAIN given |-> given[k].detection]
          ).collection["catalog"] = <<>>
  ]_vars

\* the catalog file is the active document, its text holds what a rule
\* matches, and another document has findings published
C20_Witness ==
  /\ phase = "active"
  /\ activeTextEditor = "catalog"
  /\ diagnosticCollection["catalog"] = <<>>
  /\ diagnosticCollection["app"] # <<>>
  /\ ScanAlone(documents["catalog"].text, unsafePatterns, NoPath) # <<>>
  /\ providers = ProviderCap

\* C23: a handler changes the diagnostics of no document but the active
\* editor's; a change of the text of a document that is not the active
\* editor's document starts no scan: the collection, the RegExp objects and
\* the registered providers stay as they are.
C23_OnlyActiveDocument ==
  [][/\ phase' = "active" =>
          \A d \in Docs :
            d # activeTextEditor' =>
              diagnosticCollection'[d] = diagnosticCollection[d]
     /\ \A d \in Docs :
          documents'[d].text # documents[d].text /\ d # activeTextEditor
            => /\ diagnosticCollection' = diagnosticCollection
               /\ lastIndex' = lastIndex
               /\ providers' = providers]_vars

\* the catalog file is in the active editor, and the other document keeps
\* the diagnostics of a text it no longer has
C23_Witness ==
  /\ phase = "active"
  /\ activeTextEditor = "catalog"
  /\ IsScannedLanguage(documents["app"].languageId)
  /\ diagnosticCollection["app"] # <<>>
  /\ ~Shows(diagnosticCollection["app"], documents["app"])
  /\ providers = 3

\* the step is one of a handler that calls updateDiagnostics for a document
\* that is not the catalog file
UpdateRequested ==
  /\ ScanRequested
  /\ IsScannedLanguage(documents'[activeTextEditor'].languageId)
  /\ activeTextEditor' # "catalog"

LivePanels == {h \in DOMAIN webviewPanels : ~webviewPanels[h].isDisposed}

\* the panels the user has before them
OpenPanels == {h \in LivePanels : ~webviewPanels[h].closing}

\* the step creates a panel
PanelCreated == Len(webviewPanels') > Len(webviewPanels)

\* the step is the one in which the extension host hears that the user closed
\* the panel of handle h
HeardOfClosing(h) == webviewPanels[h].closing /\ ~webviewPanels'[h].closing

\* C21: at most one panel is open, and currentPanel refers to every panel
\* that is not disposed; the step that creates a panel leaves every earlier
\* panel disposed; and the dispose listener of a panel that is not the one
\* currentPanel refers to leaves currentPanel as it is.
C21_SinglePanel ==
  /\ [](/\ Cardinality(OpenPanels) <= 1
        /\ Cardinality(LivePanels) <= 1
        /\ \A h \in LivePanels :
             currentPanel # NoPanel /\ currentPanel.handle = h)
  /\ [][/\ PanelCreated =>
            /\ \A h \in DOMAIN webviewPanels : webviewPanels'[h].isDisposed
            /\ currentPanel'.handle = Len(webviewPanels')
        /\ \A h \in DOMAIN webviewPanels :
             HeardOfClosing(h) /\ currentPanel # NoPanel
                               /\ currentPanel.handle # h
               => currentPanel' = currentPanel]_vars

\* the user closed the first panel, a show-details command ran before the
\* extension host heard of it, and the second panel is open
C21_Witness ==
  /\ Len(webviewPanels) = 2
  /\ webviewPanels[1].isDisposed
  /\ webviewPanels[1].closing
  /\ OpenPanels = {2}
  /\ currentPanel # NoPanel
  /\ currentPanel.handle = 2

\* C22: once deactivate has run, no panel is left that is not disposed,
\* currentPanel is undefined and the diagnostic collection holds no
\* diagnostic for any document.
C22_Teardown ==
  phase = "deactivated" =>
    /\ LivePanels = {}
    /\ currentPanel = NoPanel
    /\ \A d \in Docs : diagnosticCollection[d] = <<>>

\* deactivate ran after the counted scans and disposed the last panel, which
\* the user had closed without the extension host having heard of it
C22_Witness ==
  /\ phase = "deactivated"
  /\ providers = ProviderCap - 1
  /\ Len(webviewPanels) = MaxPanels
  /\ webviewPanels[MaxPanels].isDisposed
  /\ webviewPanels[MaxPanels].closing

\* the diagnostics of a context that are of SafeMongo and carry a detection
Served(context) ==
  SelectSeq(context,
            LAMBDA dg : dg.source = "SafeMongo" /\ "detection" \in DOMAIN dg)

\* provideCodeActions returns one quick fix for each diagnostic of SafeMongo
\* that carries a detection, in their order, and its command has that
\* detection for its only argument
OneActionEach ==
  \A d \in Docs : \A context \in Contexts(d) :
    LET actions == provideCodeActions(context)
        served == Served(context)
    IN  /\ Len(actions) = Len(served)
        /\ \A k \in DOMAIN actions :
             /\ actions[k].kind = "quickfix"
             /\ actions[k].command.command =
                  "safemongo.showVulnerabilityDetails"
             /\ actions[k].command.arguments = <<served[k].detection>>

\* what a detail view shows of a detection
View(detection) == Panel(0, detection).html

\* the new panel shows the rule and the matched text of the detection of a
\* published diagnostic
ShowsRuleAndText ==
  \E f \in PublishedDetections :
    /\ currentPanel'.title = f.pattern.name
    /\ currentPanel'.html.name = f.pattern.name
    /\ currentPanel'.html.severity = f.pattern.severity
    /\ currentPanel'.html.severityColor = getSeverityColor(f.pattern.severity)
    /\ currentPanel'.html.docUrl = f.pattern.docUrl
    /\ currentPanel'.html.matchedText = f.matchedText

\* the new panel tells the line number: the published detections that it can
\* be the view of are of one line
TellsLineNumber ==
  \A f, g \in PublishedDetections :
    View(f) = currentPanel'.html /\ View(g) = currentPanel'.html
      => f.lineNumber = g.lineNumber

\* C25, as stated: provideCodeActions returns exactly one quick fix for each
\* diagnostic of SafeMongo with a detection and none for another diagnostic,
\* the detection being the argument of its command; and the detail view
\* opened from a diagnostic shows the rule, the line number and the matched
\* text of its detection.
C25_ViewShowsFinding ==
  /\ []OneActionEach
  /\ [][PanelCreated => ShowsRuleAndText /\ TellsLineNumber]_vars

\* C25, amended: provideCodeActions returns exactly one quick fix for each
\* diagnostic of SafeMongo with a detection and none for another diagnostic,
\* the detection being the argument of its command; and the detail view
\* opened from a diagnostic shows the rule and the matched text of its
\* detection.
C25_ViewShowsRuleAndText ==
  /\ []OneActionEach
  /\ [][PanelCreated => ShowsRuleAndText]_vars

\* a detail view is open that shows the line of a published diagnostic
C25_Witness ==
  /\ currentPanel # NoPanel
  /\ OpenPanels = {currentPanel.handle}
  /\ currentPanel.html.matchedText = <<"a">>
  /\ \E k \in DOMAIN diagnosticCollection["app"] :
       View(diagnosticCollection["app"][k].detection) = currentPanel.html

=============================================================================
